---- MODULE Spec2Model ----
(***************************************************************************)
(* Admission bot: the conversation flow of controllers/whatsappController  *)
(* (later copy, src/unnamed/part_001 lines 697-1802) and the slot          *)
(* allocator of services/appointmentService (src/unnamed/part_008).        *)
(*                                                                         *)
(* Texts are TLA+ strings handled character by character (SubSeq, Len,     *)
(* \o).  Times are whole seconds of local time counted from 00:00 of a     *)
(* Sunday.  A JavaScript number that may be null or absent is an integer   *)
(* with the negative markers NULL and UNDEF; a text that may be absent is  *)
(* the marker NOTEXT.                                                      *)
(***************************************************************************)
EXTENDS Integers, Sequences, FiniteSets, TLC

(***************************************************************************)
(* JavaScript values                                                       *)
(***************************************************************************)
NULL == 0 - 1
UNDEF == 0 - 2
NOTEXT == "<undefined>"
NULLTEXT == "<null>"

\* JavaScript truthiness of a number-or-null-or-undefined
Truthy(n) == n > 0
\* JavaScript truthiness of a text-or-undefined
TruthyText(s) == s # NOTEXT /\ s # NULLTEXT /\ s # ""

(***************************************************************************)
(* String functions of the JavaScript runtime used by the handlers         *)
(***************************************************************************)
Char(s, i) == SubSeq(s, i, i)

UpperCaseLetters == "ABCDEFGHIJKLMNOPQRSTUVWXYZ"
LowerCaseLetters == "abcdefghijklmnopqrstuvwxyz"
Digits == "0123456789"

IndexIn(alphabet, c) ==
  IF \E i \in 1..Len(alphabet) : Char(alphabet, i) = c
    THEN CHOOSE i \in 1..Len(alphabet) : Char(alphabet, i) = c
    ELSE 0

LowerChar(c) ==
  IF IndexIn(UpperCaseLetters, c) > 0
    THEN Char(LowerCaseLetters, IndexIn(UpperCaseLetters, c))
    ELSE c

RECURSIVE toLowerCase(_)
toLowerCase(s) ==
  IF Len(s) = 0 THEN ""
  ELSE LowerChar(Char(s, 1)) \o toLowerCase(SubSeq(s, 2, Len(s)))

RECURSIVE trimStart(_)
trimStart(s) ==
  IF Len(s) > 0 /\ Char(s, 1) = " " THEN trimStart(SubSeq(s, 2, Len(s))) ELSE s

RECURSIVE trimEnd(_)
trimEnd(s) ==
  IF Len(s) > 0 /\ Char(s, Len(s)) = " "
    THEN trimEnd(SubSeq(s, 1, Len(s) - 1)) ELSE s

trim(s) == trimEnd(trimStart(s))

startsWith(s, p) == Len(s) >= Len(p) /\ SubSeq(s, 1, Len(p)) = p

\* s.substring(n): the text from 0-based position n on
substring(s, n) == SubSeq(s, n + 1, Len(s))

IsDigit(c) == IndexIn(Digits, c) > 0
DigitValue(c) == IndexIn(Digits, c) - 1

\* s.match(/\d+/): the first maximal run of digits, or NOTEXT for no match
FirstDigitPos(s) ==
  IF \E i \in 1..Len(s) : IsDigit(Char(s, i))
    THEN CHOOSE i \in 1..Len(s) :
           IsDigit(Char(s, i)) /\ \A j \in 1..(i - 1) : ~IsDigit(Char(s, j))
    ELSE 0

RECURSIVE DigitRunEnd(_, _)
DigitRunEnd(s, i) ==
  IF i < Len(s) /\ IsDigit(Char(s, i + 1)) THEN DigitRunEnd(s, i + 1) ELSE i

matchDigits(s) ==
  IF FirstDigitPos(s) = 0 THEN NOTEXT
  ELSE SubSeq(s, FirstDigitPos(s), DigitRunEnd(s, FirstDigitPos(s)))

RECURSIVE DecimalValue(_)
DecimalValue(d) ==
  IF Len(d) = 0 THEN 0
  ELSE 10 * DecimalValue(SubSeq(d, 1, Len(d) - 1)) + DigitValue(Char(d, Len(d)))

\* parseInt(text, 10): optional blanks, then the leading digits; NULL stands
\* for NaN (every caller tests isNaN or passes a digit run)
parseInt(s) ==
  LET t == trimStart(s) IN
  IF Len(t) > 0 /\ IsDigit(Char(t, 1))
    THEN DecimalValue(SubSeq(t, 1, DigitRunEnd(t, 1)))
    ELSE NULL

\* utils/sanitizer.js: drop every character outside [a-zA-Z0-9 .,!?@], trim
SanitizerKeeps(c) ==
  \/ IndexIn(UpperCaseLetters, c) > 0
  \/ IndexIn(LowerCaseLetters, c) > 0
  \/ IsDigit(c)
  \/ c \in {" ", ".", ",", "!", "?", "@"}

RECURSIVE StripChars(_)
StripChars(s) ==
  IF Len(s) = 0 THEN ""
  ELSE (IF SanitizerKeeps(Char(s, 1)) THEN Char(s, 1) ELSE "")
         \o StripChars(SubSeq(s, 2, Len(s)))

sanitizeInput(input) == trim(StripChars(input))

\* userId.split('@')[0]
RECURSIVE beforeAt(_)
beforeAt(s) ==
  IF Len(s) = 0 \/ Char(s, 1) = "@" THEN ""
  ELSE Char(s, 1) \o beforeAt(SubSeq(s, 2, Len(s)))

\* A number rendered in a template string
RECURSIVE ToDecimal(_)
ToDecimal(n) ==
  IF n < 10 THEN Char(Digits, n + 1)
  ELSE ToDecimal(n \div 10) \o Char(Digits, (n % 10) + 1)

(***************************************************************************)
(* Bounds of the model                                                     *)
(***************************************************************************)
\* rows the student table may hold (new records are MAX(id)+1 without end)
MaxStudents == 2
\* rows the appointments table may hold
MaxAppointments == 3
\* times a run of the pre-flow resumption logic sets up a session
MaxFlows == 1
\* corrections (accepted update_detail messages) per run
MaxCorrections == 1

(***************************************************************************)
(* The users, what they type, and what the Oracle may answer               *)
(***************************************************************************)
Users == {"9665@c.us"}
\* the users of the runs that follow two users at once
Guardians == Users \cup {"9666@c.us"}

Bodies ==
  { "exit", " EXIT ", "yes", "No!", "maybe", "John~ Smith", "J@X.io", "three",
    "2", "Friend", "name", "Email", "grade", "semester", "referral", "1",
    "0", "99" }

Intents == {"AdmissionFlow", "AskFAQ", "Unknown"}

ValidationTypes == {"name", "email", "grade_level", "semester", "referral_source"}

UnavailableText == "Validation service is unavailable. Please try again."
RejectText == "Invalid input, a valid value is required."

\* The values the Oracle may hand back as the normalized form of an input
NormalizedValues(validationType, input) ==
  CASE validationType = "name" ->
         IF input = "John Smith" THEN {input} ELSE {}
    [] validationType = "email" ->
         IF input = "J@X.io" THEN {toLowerCase(input)} ELSE {}
    [] validationType = "grade_level" ->
         IF input = "three" THEN {"3", "three"} ELSE {}
    [] validationType = "semester" ->
         IF input = "2" THEN {"Semester 02"} ELSE {}
    [] validationType = "referral_source" ->
         IF input = "Friend" THEN {"Friend"} ELSE {}
    [] OTHER -> {}

\* aiService.validateInput: the Oracle's outcome and the text it returns.
\* outcome and value are the Oracle's meaning; the handlers see text only.
validateInput(validationType, input) ==
  { [outcome |-> "unavailable", value |-> NOTEXT, text |-> UnavailableText],
    [outcome |-> "rejected", value |-> NOTEXT, text |-> RejectText] }
  \cup { [outcome |-> "accepted", value |-> v, text |-> "valid " \o v] :
           v \in NormalizedValues(validationType, input) }
  \cup { [outcome |-> "accepted", value |-> v, text |-> "Valid  " \o v] :
           v \in NormalizedValues(validationType, input) }
  \cup { [outcome |-> "accepted", value |-> input, text |-> "valid"] :
           v \in NormalizedValues(validationType, input) }

\* aiService.interpretYesNo
RECURSIVE StripPunctuation(_)
StripPunctuation(s) ==
  IF Len(s) = 0 THEN ""
  ELSE (IF \/ IndexIn(UpperCaseLetters, Char(s, 1)) > 0
           \/ IndexIn(LowerCaseLetters, Char(s, 1)) > 0
           \/ IsDigit(Char(s, 1))
           \/ Char(s, 1) = " "
          THEN Char(s, 1) ELSE "")
         \o StripPunctuation(SubSeq(s, 2, Len(s)))

\* What the language model may answer when asked to read a message as yes
\* or no; "" stands for no response (callOpenAI returned null)
YesNoCompletions(userMessage) ==
  IF userMessage = "maybe" THEN {"Yes", " no", "unknown", "I think so", ""}
  ELSE {"unknown", ""}

interpretYesNo(userMessage) ==
  LET normalized == toLowerCase(StripPunctuation(trim(userMessage))) IN
  IF normalized = "yes" THEN {"yes"}
  ELSE IF normalized = "no" THEN {"no"}
  ELSE { IF response = "" THEN "unknown"
         ELSE IF toLowerCase(trim(response)) = "yes" THEN "yes"
         ELSE IF toLowerCase(trim(response)) = "no" THEN "no"
         ELSE "unknown" : response \in YesNoCompletions(userMessage) }

(***************************************************************************)
(* State                                                                   *)
(***************************************************************************)
VARIABLES
  userSessions,        \* the Map userId -> session of the controller
  student,             \* table student
  studentcontactinfo,  \* table studentcontactinfo
  appointments,        \* table appointments
  now,                 \* the clock
  sent,                \* what sendMessage was given for the last inbound message
  last,                \* the last inbound message: branch taken, Oracle outcome
  flows,               \* sessions set up so far
  corrections,         \* corrections accepted so far
  calls,               \* the saveAppointment calls in progress, query by query
  handlers             \* the message handlers in progress, await by await

vars == <<userSessions, student, studentcontactinfo, appointments, now, sent,
          last, flows, corrections, calls, handlers>>

EmptyData ==
  [ displayname |-> NOTEXT, email |-> NOTEXT, grade |-> UNDEF,
    semester |-> UNDEF, referral |-> NOTEXT, studentId |-> UNDEF,
    detailToUpdate |-> NOTEXT, slotsList |-> <<>>, pendingSlot |-> UNDEF,
    existingAppointmentDate |-> UNDEF, existingAppointments |-> <<>> ]

NoSession ==
  [ present |-> FALSE, state |-> "", previousState |-> NOTEXT,
    intentDisabled |-> FALSE, data |-> EmptyData ]

\* { state: ..., data: {} }
NewSession(st) ==
  [ present |-> TRUE, state |-> st, previousState |-> NOTEXT,
    intentDisabled |-> FALSE, data |-> EmptyData ]

\* the mapping with the keys of grade_level and semester exchanged
storeKeyMappingExchanged(validationType) ==
  CASE validationType = "name" -> "displayname"
    [] validationType = "email" -> "email"
    [] validationType = "grade_level" -> "semester"
    [] validationType = "semester" -> "grade"
    [] validationType = "referral_source" -> "referral"
    [] OTHER -> validationType

\* const storeKeyMapping
storeKeyMapping(validationType) ==
  CASE validationType = "name" -> "displayname"
    [] validationType = "email" -> "email"
    [] validationType = "grade_level" -> "grade"
    [] validationType = "semester" -> "semester"
    [] validationType = "referral_source" -> "referral"
    [] OTHER -> validationType

FieldStates ==
  << "admission_displayname", "admission_email", "admission_grade",
     "admission_semester", "admission_referral" >>

IsFieldState(st) == \E i \in 1..Len(FieldStates) : FieldStates[i] = st

\* the inner switch of the field-collection case
fieldValidationType(st) ==
  CASE st = "admission_displayname" -> "name"
    [] st = "admission_email" -> "email"
    [] st = "admission_grade" -> "grade_level"
    [] st = "admission_semester" -> "semester"
    [] st = "admission_referral" -> "referral_source"
    [] OTHER -> "text"

\* the switch with the break of its second case missing
fieldNextStateSkips(st) ==
  CASE st = "admission_displayname" -> "admission_email"
    [] st = "admission_email" -> "admission_semester"
    [] st = "admission_grade" -> "admission_semester"
    [] st = "admission_semester" -> "admission_referral"
    [] st = "admission_referral" -> "admission_confirm"
    [] OTHER -> ""

\* the "Move to the next state" switch
fieldNextState(st) ==
  CASE st = "admission_displayname" -> "admission_email"
    [] st = "admission_email" -> "admission_grade"
    [] st = "admission_grade" -> "admission_semester"
    [] st = "admission_semester" -> "admission_referral"
    [] st = "admission_referral" -> "admission_confirm"
    [] OTHER -> ""

\* the test with the prefix "valid" in place of "valid "
isValidValidationPrefix(result) ==
  LET normalized == trim(toLowerCase(result)) IN
  normalized = "valid" \/ startsWith(normalized, "valid")

isValidValidation(result) ==
  LET normalized == trim(toLowerCase(result)) IN
  normalized = "valid" \/ startsWith(normalized, "valid ")

\* `${x || 'Not provided'}`
ShowText(s) == IF TruthyText(s) THEN s ELSE "Not provided"
ShowNumber(n) == IF Truthy(n) THEN ToDecimal(n) ELSE "Not provided"

Message(kind) == [kind |-> kind, shown |-> <<>>]

getPromptForState(st, sessionData) ==
  IF st = "admission_confirm"
    THEN IF /\ ~TruthyText(sessionData.displayname)
            /\ ~TruthyText(sessionData.email)
            /\ ~Truthy(sessionData.grade)
            /\ ~Truthy(sessionData.semester)
            /\ ~TruthyText(sessionData.referral)
           THEN Message("prompt:lets_start")
           ELSE [ kind |-> "prompt:admission_confirm",
                  shown |-> << ShowText(sessionData.displayname),
                               ShowText(sessionData.email),
                               ShowNumber(sessionData.grade),
                               ShowNumber(sessionData.semester),
                               ShowText(sessionData.referral) >> ]
  ELSE IF st = "meeting_show_slots"
    THEN [kind |-> "prompt:meeting_show_slots", shown |-> sessionData.slotsList]
  ELSE IF st = "update_detail"
    THEN [kind |-> "prompt:update_detail", shown |-> <<sessionData.detailToUpdate>>]
  ELSE Message("prompt:" \o st)

(***************************************************************************)
(* The clock and the tables                                                *)
(***************************************************************************)
\* Date objects are milliseconds of local time; DATETIME columns are seconds
SecondMs == 1000
MinuteMs == 60 * SecondMs
HourMs == 60 * MinuteMs
DayMs == 24 * HourMs

\* a Wednesday, 10:00:00.250
StartOfRun == 3 * DayMs + 10 * HourMs + 250

\* appointmentService.formatDateTimeMySql: 'YYYY-MM-DD HH:MM:SS' of a Date,
\* the milliseconds dropped
formatDateTimeMySql(date) == date \div SecondMs

\* new Date(row.appdate)
DateOf(appdate) == appdate * SecondMs

\* MySQL's NOW()
SqlNow == now \div SecondMs

RECURSIVE SortedSeq(_)
SortedSeq(S) ==
  IF S = {} THEN <<>>
  ELSE LET m == CHOOSE a \in S : \A b \in S : a <= b
       IN <<m>> \o SortedSeq(S \ {m})

MaxId(rows) ==
  IF rows = {} THEN NULL
  ELSE CHOOSE m \in {r.id : r \in rows} : \A r \in rows : r.id <= m

\* (rows[0].maxId || 0) + 1
NextId(rows) == (IF Truthy(MaxId(rows)) THEN MaxId(rows) ELSE 0) + 1

StudentRow(id, enrolled) ==
  [ id |-> id, displayname |-> "Ann Lee", grade |-> 5, semester |-> 0,
    referral |-> "", enrolled |-> enrolled ]

ContactRow(id, studentId, phone) ==
  [ id |-> id, student_id |-> studentId, email |-> "ann@x.io",
    mobile |-> phone, mobile2 |-> "" ]

AppointmentRow(id, studentId, appdate) ==
  [ id |-> id, student_id |-> studentId, appdate |-> appdate ]

\* The tables as the bot may find them when it starts
InitialDatabases ==
  LET phone == "9665"
      thursday8 == formatDateTimeMySql(4 * DayMs + 8 * HourMs)
  IN { [student |-> {}, contact |-> {}, appointments |-> {}],
       [student |-> {StudentRow(1, 0)}, contact |-> {ContactRow(1, 1, phone)},
        appointments |-> {}],
       [student |-> {StudentRow(1, 1)}, contact |-> {ContactRow(1, 1, phone)},
        appointments |-> {}],
       [student |-> {StudentRow(1, 0)}, contact |-> {ContactRow(1, 1, phone)},
        appointments |-> {AppointmentRow(1, 1, thursday8)}],
       [student |-> {StudentRow(1, 1)}, contact |-> {ContactRow(1, 1, phone)},
        appointments |-> {AppointmentRow(1, 1, thursday8)}] }

\* what the last inbound message was and did.  exit: handleSession's
\* userMessage was the cancellation keyword
LastOf(exit, branch, outcome, value) ==
  [exit |-> exit, branch |-> branch, outcome |-> outcome, value |-> value]

Last(branch, outcome, value) == LastOf(FALSE, branch, outcome, value)

\* a handler or a call that runs from its start to its end with nothing in
\* between; the specifications of the interleavings are further down
NoCalls == <<>>
NoHandlers == <<>>
Sequential == UNCHANGED <<calls, handlers>>

Init ==
  /\ userSessions = [u \in Users |-> NoSession]
  /\ \E db \in InitialDatabases :
       /\ student = db.student
       /\ studentcontactinfo = db.contact
       /\ appointments = db.appointments
  /\ now = StartOfRun
  /\ sent = <<>>
  /\ last = Last("none", "", NOTEXT)
  /\ flows = 0
  /\ corrections = 0
  /\ calls = NoCalls
  /\ handlers = NoHandlers

\* SELECT student_id FROM studentcontactinfo WHERE mobile = ? OR mobile2 = ?
ContactStudentIds(phone) ==
  { c.student_id : c \in { r \in studentcontactinfo :
                             r.mobile = phone \/ r.mobile2 = phone } }

\* appointmentService.getAllFutureAppointments; a failed query gives []
getAllFutureAppointments(studentId, queryFails) ==
  IF queryFails THEN <<>>
  ELSE SortedSeq({ a.appdate : a \in { r \in appointments :
                     r.student_id = studentId /\ r.appdate >= SqlNow } })

\* the same join without AND s.enrolled = 0
RowsById(studentId) ==
  { [s |-> s, sci |-> c] : s \in { r \in student : r.id = studentId },
                           c \in { r \in studentcontactinfo : r.student_id = studentId } }

\* FROM student s JOIN studentcontactinfo sci ON s.id = sci.student_id
\* WHERE s.id = ? AND s.enrolled = 0
UnenrolledRowsById(studentId) ==
  { [s |-> s, sci |-> c] : s \in { r \in student : r.id = studentId /\ r.enrolled = 0 },
                           c \in { r \in studentcontactinfo : r.student_id = studentId } }

\* ... WHERE (sci.mobile = ? OR sci.mobile2 = ?) AND s.enrolled = 0
UnenrolledRowsByPhone(phone) ==
  { j \in { [s |-> s, sci |-> c] : s \in student, c \in studentcontactinfo } :
      /\ j.s.id = j.sci.student_id
      /\ j.sci.mobile = phone \/ j.sci.mobile2 = phone
      /\ j.s.enrolled = 0 }

\* x ? parseInt(x, 10) : null
LoadNumber(n) == IF Truthy(n) THEN n ELSE NULL
\* x || 'Unknown'
LoadReferral(s) == IF TruthyText(s) THEN s ELSE "Unknown"

\* the session data built from a found admission record
FoundData(studentId, row) ==
  [ EmptyData EXCEPT !.studentId = studentId,
                     !.displayname = row.s.displayname,
                     !.email = row.sci.email,
                     !.grade = LoadNumber(row.s.grade),
                     !.semester = LoadNumber(row.s.semester),
                     !.referral = LoadReferral(row.s.referral) ]

(***************************************************************************)
(* client.on('message'): what happens before a session is looked at        *)
(***************************************************************************)
\* const phone = userId.split('@')[0]
Phone == [u \in Guardians |-> beforeAt(u)]

Active(u) == userSessions[u].present /\ userSessions[u].state # ""

DatabaseUnchanged == UNCHANGED <<student, studentcontactinfo, appointments>>
CountersUnchanged == UNCHANGED <<flows, corrections>>

\* msg.timestamp * 1000 < botStartTime.getTime()
IgnoreOldMessage(u) ==
  /\ Sequential
  /\ sent' = <<>>
  /\ last' = Last("ignored_old", "", NOTEXT)
  /\ UNCHANGED <<userSessions, now>>
  /\ DatabaseUnchanged
  /\ CountersUnchanged

\* rateLimiter.isRateLimited(userId): 100 messages within the cache's 60 s
RateLimitedMessage(u) ==
  /\ Sequential
  /\ sent' = <<Message("too_quickly")>>
  /\ last' = Last("rate_limited", "", NOTEXT)
  /\ UNCHANGED <<userSessions, now>>
  /\ DatabaseUnchanged
  /\ CountersUnchanged

(***************************************************************************)
(* client.on('message') with no active session                             *)
(***************************************************************************)
\* PRIORITY 2: new admission flow.  lookupFails: the student_id query throws
\* (caught); appointmentsFail: getAllFutureAppointments' query throws
\* (caught there); dataFails: the admission data query throws (not caught
\* here: the outer catch ends the handling)
StartAdmissionOutcome(u, lookupFails, appointmentsFail, dataFails) ==
  LET phone == Phone[u]
      ids == IF lookupFails THEN {} ELSE ContactStudentIds(phone)
  IN IF ids = {}
       THEN { [thrown |-> FALSE, session |-> NewSession("admission_displayname"),
               prompt |-> getPromptForState("admission_displayname", EmptyData)] }
       ELSE UNION { 
         LET withId == [EmptyData EXCEPT !.studentId = studentId]
             existingAppointments == getAllFutureAppointments(studentId, appointmentsFail)
         IN IF Len(existingAppointments) > 0
              THEN { [thrown |-> FALSE,
                      session |-> [NewSession("confirm_book_another_appointment")
                                     EXCEPT !.data = [withId EXCEPT
                                       !.existingAppointments = existingAppointments]],
                      prompt |-> [kind |-> "found_appointments",
                                  shown |-> existingAppointments]] }
            ELSE IF dataFails
              THEN { [thrown |-> TRUE, session |-> NoSession, prompt |-> Message("")] }
            ELSE IF UnenrolledRowsById(studentId) # {}
              THEN { [thrown |-> FALSE,
                      session |-> [NewSession("confirm_existing_data")
                                     EXCEPT !.data = FoundData(studentId, row)],
                      prompt |-> [kind |-> "found_information",
                                  shown |-> << ShowText(FoundData(studentId, row).displayname),
                                               ShowText(FoundData(studentId, row).email),
                                               ShowNumber(FoundData(studentId, row).grade),
                                               ShowNumber(FoundData(studentId, row).semester),
                                               ShowText(FoundData(studentId, row).referral) >>]] 
                     : row \in UnenrolledRowsById(studentId) }
            ELSE { [thrown |-> FALSE,
                    session |-> [NewSession("admission_displayname")
                                   EXCEPT !.data = withId],
                    prompt |-> getPromptForState("admission_displayname", withId)] }
         : studentId \in ids }

StartAdmissionWith(u, lookupFails, appointmentsFail, dataFails) ==
  /\ Sequential
  /\ ~Active(u)
  /\ flows < MaxFlows
  /\ flows' = flows + 1
  /\ UNCHANGED corrections
  /\ \E out \in StartAdmissionOutcome(u, lookupFails, appointmentsFail, dataFails) :
         /\ userSessions' = IF out.thrown THEN userSessions
                            ELSE [userSessions EXCEPT ![u] = out.session]
         /\ sent' = IF out.thrown THEN <<>> ELSE <<out.prompt>>
         /\ last' = Last("start_admission", IF out.thrown THEN "thrown" ELSE "", NOTEXT)
  /\ UNCHANGED now
  /\ DatabaseUnchanged

StartAdmission(u) ==
  \E lookupFails \in BOOLEAN, appointmentsFail \in BOOLEAN, dataFails \in BOOLEAN :
    StartAdmissionWith(u, lookupFails, appointmentsFail, dataFails)

\* PRIORITY 3: a question with no active session
AnswerWithoutSession(u) ==
  /\ Sequential
  /\ ~Active(u)
  /\ sent' = <<Message("answer")>>
  /\ last' = Last("faq_no_session", "", NOTEXT)
  /\ UNCHANGED <<userSessions, now>>
  /\ DatabaseUnchanged
  /\ CountersUnchanged

\* PRIORITY 4: any other intent with no active session; getUserInfo's
\* queries may throw, and the outer catch then ends the handling silently
GreetWithoutSession(u) ==
  /\ Sequential
  /\ ~Active(u)
  /\ \E thrown \in BOOLEAN :
       /\ sent' = IF thrown THEN <<>> ELSE <<Message("hello"), Message("how_can_i_help")>>
       /\ last' = Last("fallback_no_session", IF thrown THEN "thrown" ELSE "", NOTEXT)
  /\ UNCHANGED <<userSessions, now>>
  /\ DatabaseUnchanged
  /\ CountersUnchanged

(***************************************************************************)
(* handleSession                                                           *)
(***************************************************************************)
\* const userMessage = sanitizer.sanitizeInput(msg.body), for every body
UserMessage == [body \in Bodies |-> sanitizeInput(body)]

\* userMessage.toLowerCase() === 'exit', for every body
IsExit == [body \in Bodies |-> toLowerCase(UserMessage[body]) = "exit"]

\* the intentDisabled branch ending the session it has acknowledged
CompleteAckClears(u) ==
  /\ Sequential
  /\ Active(u)
  /\ userSessions[u].intentDisabled
  /\ userSessions' = [userSessions EXCEPT ![u] = NoSession]
  /\ sent' = <<Message("process_complete")>>
  /\ \E body \in Bodies : last' = LastOf(IsExit[body], "complete_ack", "", NOTEXT)
  /\ UNCHANGED now
  /\ DatabaseUnchanged
  /\ CountersUnchanged

\* if (session.intentDisabled) { ...; return; }
CompleteAck(u) ==
  /\ Sequential
  /\ Active(u)
  /\ userSessions[u].intentDisabled
  /\ sent' = <<Message("process_complete")>>
  /\ \E body \in Bodies : last' = LastOf(IsExit[body], "complete_ack", "", NOTEXT)
  /\ UNCHANGED <<userSessions, now>>
  /\ DatabaseUnchanged
  /\ CountersUnchanged

\* the exit branch without its userSessions.delete
ExitCommandKeeps(u) ==
  /\ Sequential
  /\ Active(u)
  /\ ~userSessions[u].intentDisabled
  /\ \E body \in Bodies : IsExit[body]
  /\ sent' = <<Message("cancelled")>>
  /\ last' = LastOf(TRUE, "exit", "", NOTEXT)
  /\ UNCHANGED <<userSessions, now>>
  /\ DatabaseUnchanged
  /\ CountersUnchanged

\* if (userMessage.toLowerCase() === 'exit') { userSessions.delete(userId); ... }
ExitCommand(u) ==
  /\ Sequential
  /\ Active(u)
  /\ ~userSessions[u].intentDisabled
  /\ \E body \in Bodies : IsExit[body]
  /\ userSessions' = [userSessions EXCEPT ![u] = NoSession]
  /\ sent' = <<Message("cancelled")>>
  /\ last' = LastOf(TRUE, "exit", "", NOTEXT)
  /\ UNCHANGED now
  /\ DatabaseUnchanged
  /\ CountersUnchanged

\* the switch is reached with the session in state st
InCase(u, st) ==
  /\ Active(u)
  /\ ~userSessions[u].intentDisabled
  /\ userSessions[u].state = st

\* the bodies that get as far as the switch
SwitchBodies == { body \in Bodies : ~IsExit[body] }

\* parseInt of the extracted value itself, without the match
firstNumberOfWhole(extractedValue) == parseInt(extractedValue)

\* gradeMatch ? parseInt(gradeMatch[0], 10) : null
firstNumber(extractedValue) ==
  IF matchDigits(extractedValue) # NOTEXT
    THEN parseInt(matchDigits(extractedValue)) ELSE NULL

\* Store integer for grade and semester, otherwise store the extracted string
StoreCollected(data, storeKey, extractedValue, number) ==
  CASE storeKey = "grade" -> [data EXCEPT !.grade = number]
       [] storeKey = "semester" -> [data EXCEPT !.semester = number]
       [] storeKey = "displayname" -> [data EXCEPT !.displayname = extractedValue]
       [] storeKey = "email" -> [data EXCEPT !.email = extractedValue]
       [] storeKey = "referral" -> [data EXCEPT !.referral = extractedValue]
       [] OTHER -> data

\* Extract the raw value from the AI response (usually after "valid ")
ExtractedValue(validationRes, userMessage) ==
  IF startsWith(toLowerCase(validationRes), "valid ")
    THEN trim(substring(validationRes, 6))
    ELSE trim(userMessage)

\* What the field-collection case makes of an Oracle reply to a message
CollectReply(reply, userMessage) ==
  [ outcome |-> reply.outcome, value |-> reply.value, text |-> reply.text,
    valid |-> isValidValidation(reply.text),
    extracted |-> IF isValidValidation(reply.text)
                    THEN ExtractedValue(reply.text, userMessage)
                    ELSE NOTEXT,
    number |-> IF isValidValidation(reply.text)
                 THEN firstNumber(ExtractedValue(reply.text, userMessage))
                 ELSE NULL ]

\* the same for every message that reaches the switch (computed once for
\* the messages of the model)
CollectReplies ==
  [ validationType \in ValidationTypes |->
    UNION { { CollectReply(reply, UserMessage[body])
              : reply \in validateInput(validationType, UserMessage[body]) }
            : body \in SwitchBodies } ]

\* case 'admission_displayname' ... 'admission_referral'
FieldCollection(u) ==
  /\ Sequential
  /\ \E i \in 1..Len(FieldStates) : InCase(u, FieldStates[i])
  /\ LET session == userSessions[u]
         validationType == fieldValidationType(session.state)
     IN \E reply \in CollectReplies[validationType] :
          IF reply.valid
            THEN LET stored == StoreCollected(session.data,
                                 storeKeyMapping(validationType),
                                 reply.extracted, reply.number)
                     nextState == fieldNextState(session.state)
                 IN /\ userSessions' = [userSessions EXCEPT
                          ![u] = [session EXCEPT !.data = stored, !.state = nextState]]
                    /\ sent' = <<getPromptForState(nextState, stored)>>
                    /\ last' = Last("field_accepted", reply.outcome, reply.value)
            ELSE /\ userSessions' = userSessions
                 /\ sent' = << [kind |-> "validation_reply", shown |-> <<reply.text>>],
                               getPromptForState(session.state, session.data) >>
                 /\ last' = Last("field_rejected", reply.outcome, reply.value)
  /\ UNCHANGED now
  /\ DatabaseUnchanged
  /\ CountersUnchanged

\* aiService.interpretYesNo(userMessage), for every body
YesNo == UNION { interpretYesNo(UserMessage[body]) : body \in SwitchBodies }

\* case 'confirm_existing_data'
ConfirmExistingData(u) ==
  /\ Sequential
  /\ InCase(u, "confirm_existing_data")
  /\ LET session == userSessions[u] IN
     \E yesNo \in YesNo :
       /\ last' = Last("confirm_existing_data", yesNo, NOTEXT)
       /\ IF yesNo = "yes"
            THEN /\ userSessions' = [userSessions EXCEPT ![u].state = "meeting_offer"]
                 /\ sent' = <<getPromptForState("meeting_offer", session.data)>>
          ELSE IF yesNo = "no"
            THEN /\ userSessions' = [userSessions EXCEPT
                       ![u].state = "admission_choose_detail_to_change"]
                 /\ sent' = <<getPromptForState("admission_choose_detail_to_change",
                                                session.data)>>
          ELSE /\ userSessions' = userSessions
               /\ sent' = <<Message("did_not_understand")>>
  /\ UNCHANGED now
  /\ DatabaseUnchanged
  /\ CountersUnchanged

\* The "yes" branch shared by 'confirm_book_another_appointment' and
\* 'check_existing_appointment': look for an un-enrolled record by phone.
\* The query is not inside a try: a failure ends the handling (outer catch).
RecheckExistingData(u, session, queryFails) ==
  IF queryFails THEN { [thrown |-> TRUE, session |-> session, prompt |-> Message("")] }
  ELSE IF UnenrolledRowsByPhone(Phone[u]) # {}
    THEN { [ thrown |-> FALSE,
             session |-> [session EXCEPT !.data = FoundData(row.s.id, row),
                                         !.state = "confirm_existing_data"],
             prompt |-> [kind |-> "found_information",
                         shown |-> <<row.s.displayname, row.sci.email>>] ]
           : row \in UnenrolledRowsByPhone(Phone[u]) }
  ELSE { [ thrown |-> FALSE,
           session |-> [session EXCEPT !.data = EmptyData,
                                       !.state = "admission_displayname"],
           prompt |-> getPromptForState("admission_displayname", EmptyData) ] }

\* case 'confirm_book_another_appointment'
ConfirmBookAnother(u) ==
  /\ Sequential
  /\ InCase(u, "confirm_book_another_appointment")
  /\ LET session == userSessions[u] IN
     \E yesNo \in YesNo, queryFails \in BOOLEAN :
       IF yesNo = "yes"
         THEN \E out \in RecheckExistingData(u, session, queryFails) :
                /\ userSessions' = [userSessions EXCEPT ![u] = out.session]
                /\ sent' = IF out.thrown THEN <<>> ELSE <<out.prompt>>
                /\ last' = Last("confirm_book_another",
                                IF out.thrown THEN "thrown" ELSE yesNo, NOTEXT)
         ELSE /\ userSessions' = [userSessions EXCEPT ![u] = NoSession]
              /\ sent' = <<Message("appointments_remain")>>
              /\ last' = Last("confirm_book_another", yesNo, NOTEXT)
  /\ UNCHANGED now
  /\ DatabaseUnchanged
  /\ CountersUnchanged

\* case 'check_existing_appointment'
CheckExistingAppointment(u) ==
  /\ Sequential
  /\ InCase(u, "check_existing_appointment")
  /\ LET session == userSessions[u] IN
     \E yesNo \in YesNo, queryFails \in BOOLEAN :
       IF yesNo = "yes"
         THEN \E out \in RecheckExistingData(u, session, queryFails) :
                /\ userSessions' = [userSessions EXCEPT ![u] = out.session]
                /\ sent' = IF out.thrown THEN <<>> ELSE <<out.prompt>>
                /\ last' = Last("check_existing_appointment",
                                IF out.thrown THEN "thrown" ELSE yesNo, NOTEXT)
         ELSE /\ userSessions' = [userSessions EXCEPT ![u] = NoSession]
              /\ sent' = <<Message("admission_cancelled")>>
              /\ last' = Last("check_existing_appointment", yesNo, NOTEXT)
  /\ UNCHANGED now
  /\ DatabaseUnchanged
  /\ CountersUnchanged

(***************************************************************************)
(* case 'admission_confirm': the persist step                              *)
(***************************************************************************)
\* UPDATE studentcontactinfo SET email = ?, mobile = ? WHERE student_id = ?
UpdateContact(rows, data, phone) ==
  { IF r.student_id = data.studentId
      THEN [r EXCEPT !.email = data.email, !.mobile = phone] ELSE r : r \in rows }

\* the UPDATE with the bind values of grade and semester in each other's place
UpdateStudentExchanged(rows, data) ==
  { IF r.id = data.studentId
      THEN [r EXCEPT !.displayname = data.displayname, !.grade = data.semester,
                     !.semester = data.grade, !.referral = data.referral]
      ELSE r : r \in rows }

\* UPDATE student SET displayname = ?, grade = ?, semester = ?, referral = ?
\* WHERE id = ?
UpdateStudent(rows, data) ==
  { IF r.id = data.studentId
      THEN [r EXCEPT !.displayname = data.displayname, !.grade = data.grade,
                     !.semester = data.semester, !.referral = data.referral]
      ELSE r : r \in rows }

\* the INSERT with an id of its own, one above the id it is given
InsertStudentOwnId(rows, id, data) ==
  rows \cup { [ id |-> id + 1, displayname |-> data.displayname, grade |-> data.grade,
                semester |-> data.semester, referral |-> data.referral,
                enrolled |-> 0 ] }

\* INSERT INTO student (id, displayname, grade, semester, referral, regdate,
\* enrolled) VALUES (?, ?, ?, ?, ?, NOW(), 0)
InsertStudent(rows, id, data) ==
  rows \cup { [ id |-> id, displayname |-> data.displayname, grade |-> data.grade,
                semester |-> data.semester, referral |-> data.referral,
                enrolled |-> 0 ] }

\* the INSERT with the values of email and mobile in each other's place
InsertContactSwapped(rows, id, studentId, data, phone) ==
  rows \cup { [ id |-> id, student_id |-> studentId, email |-> phone,
                mobile |-> data.email, mobile2 |-> "" ] }

\* INSERT INTO studentcontactinfo (id, student_id, email, mobile)
InsertContact(rows, id, studentId, data, phone) ==
  rows \cup { [ id |-> id, student_id |-> studentId, email |-> data.email,
                mobile |-> phone, mobile2 |-> "" ] }

\* The try block of the "yes" branch.  failAt = 0: every query succeeds;
\* failAt = k: the k-th query of the path throws and the catch runs.
\* Update path: 1 UPDATE studentcontactinfo, 2 UPDATE student.
\* Insert path: 1 SELECT MAX(id) FROM student, 2 INSERT student,
\*              3 SELECT MAX(id) FROM studentcontactinfo, 4 INSERT contact.
PersistQueries(data) == IF Truthy(data.studentId) THEN 2 ELSE 4

\* the try block with the contact row inserted before the student row
PersistAdmissionContactFirst(u, data, failAt) ==
  LET phone == Phone[u]
      done(k) == failAt = 0 \/ failAt > k
      newStudentId == NextId(student)
      newContactId == NextId(studentcontactinfo)
  IN IF Truthy(data.studentId)
       THEN [ student |-> IF done(2) THEN UpdateStudent(student, data) ELSE student,
              contact |-> IF done(1) THEN UpdateContact(studentcontactinfo, data, phone)
                          ELSE studentcontactinfo,
              studentId |-> data.studentId,
              ok |-> failAt = 0 ]
       ELSE [ student |-> IF done(4) THEN InsertStudent(student, newStudentId, data)
                          ELSE student,
              contact |-> IF done(2)
                            THEN InsertContact(studentcontactinfo, newContactId,
                                               newStudentId, data, phone)
                            ELSE studentcontactinfo,
              studentId |-> newStudentId,
              ok |-> failAt = 0 ]

PersistAdmission(u, data, failAt) ==
  LET phone == Phone[u]
      done(k) == failAt = 0 \/ failAt > k
      newStudentId == NextId(student)
      newContactId == NextId(studentcontactinfo)
  IN IF Truthy(data.studentId)
       THEN [ student |-> IF done(2) THEN UpdateStudent(student, data) ELSE student,
              contact |-> IF done(1) THEN UpdateContact(studentcontactinfo, data, phone)
                          ELSE studentcontactinfo,
              studentId |-> data.studentId,
              ok |-> failAt = 0 ]
       ELSE [ student |-> IF done(2) THEN InsertStudent(student, newStudentId, data)
                          ELSE student,
              contact |-> IF done(4)
                            THEN InsertContact(studentcontactinfo, newContactId,
                                               newStudentId, data, phone)
                            ELSE studentcontactinfo,
              studentId |-> newStudentId,
              ok |-> failAt = 0 ]

\* a catch block without its userSessions.delete
PersistFailedKeeps(u) == userSessions

\* what the catch block does with the session
PersistFailed(u) == [userSessions EXCEPT ![u] = NoSession]

AdmissionConfirm(u) ==
  /\ Sequential
  /\ InCase(u, "admission_confirm")
  /\ LET session == userSessions[u] IN
     \E yesNo \in YesNo :
       IF yesNo = "yes"
         THEN /\ Truthy(session.data.studentId) \/ Cardinality(student) < MaxStudents
              /\ \E failAt \in 0..PersistQueries(session.data) :
                   LET done == PersistAdmission(u, session.data, failAt)
                       data == [session.data EXCEPT !.studentId = done.studentId]
                   IN /\ student' = done.student
                      /\ studentcontactinfo' = done.contact
                      /\ IF done.ok
                           THEN /\ userSessions' = [userSessions EXCEPT
                                      ![u] = [session EXCEPT !.data = data,
                                                             !.state = "meeting_offer"]]
                                /\ sent' = <<getPromptForState("meeting_offer", data)>>
                                /\ last' = Last("persist_ok", yesNo, NOTEXT)
                           ELSE /\ userSessions' = PersistFailed(u)
                                /\ sent' = <<Message("problem_saving")>>
                                /\ last' = Last("persist_failed", yesNo, NOTEXT)
              /\ UNCHANGED appointments
         ELSE /\ IF yesNo = "no"
                   THEN /\ userSessions' = [userSessions EXCEPT
                              ![u].state = "admission_choose_detail_to_change"]
                        /\ sent' = <<getPromptForState(
                                       "admission_choose_detail_to_change", session.data)>>
                   ELSE /\ userSessions' = userSessions
                        /\ sent' = <<Message("did_not_understand")>>
              /\ last' = Last("admission_confirm", yesNo, NOTEXT)
              /\ DatabaseUnchanged
  /\ UNCHANGED now
  /\ CountersUnchanged

(***************************************************************************)
(* Correcting a detail                                                     *)
(***************************************************************************)
\* the list with a sixth entry
validDetailsAndSource == {"name", "email", "grade", "semester", "referral", "friend"}

\* const validDetails
validDetails == {"name", "email", "grade", "semester", "referral"}

\* const detail = userMessage.trim().toLowerCase(), for every body
Detail == { toLowerCase(trim(UserMessage[body])) : body \in SwitchBodies }

\* the case without the assignment to detailToUpdate
ChooseDetailToChangeOnUnset(u, detail) ==
  /\ Sequential
  /\ InCase(u, "admission_choose_detail_to_change")
  /\ IF detail \in validDetails
         THEN /\ userSessions' = [userSessions EXCEPT ![u].state = "update_detail"]
              /\ sent' = <<[kind |-> "provide_new", shown |-> <<detail>>]>>
              /\ last' = Last("detail_chosen", "", detail)
         ELSE /\ userSessions' = userSessions
              /\ sent' = <<Message("choose_valid_detail")>>
              /\ last' = Last("detail_invalid", "", NOTEXT)
  /\ UNCHANGED now
  /\ DatabaseUnchanged
  /\ CountersUnchanged

\* case 'admission_choose_detail_to_change'.  detail:
\* userMessage.trim().toLowerCase()
ChooseDetailToChangeOn(u, detail) ==
  /\ Sequential
  /\ InCase(u, "admission_choose_detail_to_change")
  /\ IF detail \in validDetails
         THEN /\ userSessions' = [userSessions EXCEPT
                    ![u].data.detailToUpdate = detail,
                    ![u].state = "update_detail"]
              /\ sent' = <<[kind |-> "provide_new", shown |-> <<detail>>]>>
              /\ last' = Last("detail_chosen", "", detail)
         ELSE /\ userSessions' = userSessions
              /\ sent' = <<Message("choose_valid_detail")>>
              /\ last' = Last("detail_invalid", "", NOTEXT)
  /\ UNCHANGED now
  /\ DatabaseUnchanged
  /\ CountersUnchanged

ChooseDetailToChange(u) == \E detail \in Detail : ChooseDetailToChangeOn(u, detail)

\* the switch (detailToUpdate) of 'update_detail'
updateValidationType(detailToUpdate) ==
  CASE detailToUpdate = "name" -> "name"
    [] detailToUpdate = "email" -> "email"
    [] detailToUpdate = "grade" -> "grade_level"
    [] detailToUpdate = "semester" -> "semester"
    [] detailToUpdate = "referral" -> "referral_source"
    [] OTHER -> "text"

\* valueToStore of 'update_detail' for grade and semester: the digits of the
\* reply after "valid ", else the digits of the message, else null
updatedNumber(validationRes, userMessage) ==
  LET attempt1 == IF startsWith(toLowerCase(validationRes), "valid ")
                    THEN firstNumber(trim(substring(validationRes, 6)))
                    ELSE NULL
  IN IF attempt1 # NULL THEN attempt1 ELSE firstNumber(userMessage)

\* What 'update_detail' makes of an Oracle reply to a message
UpdateReply(reply, userMessage) ==
  [ outcome |-> reply.outcome, value |-> reply.value, text |-> reply.text,
    valid |-> isValidValidation(reply.text),
    extracted |-> IF isValidValidation(reply.text) THEN trim(userMessage) ELSE NOTEXT,
    number |-> IF isValidValidation(reply.text)
                 THEN updatedNumber(reply.text, userMessage)
                 ELSE NULL ]

\* the same for every message that reaches the switch
UpdateReplies ==
  [ validationType \in ValidationTypes |->
    UNION { { UpdateReply(reply, UserMessage[body])
              : reply \in validateInput(validationType, UserMessage[body]) }
            : body \in SwitchBodies } ]

\* case 'update_detail'.  reply: the message and what validateInput returns
UpdateDetailWith(u, reply) ==
  /\ Sequential
  /\ InCase(u, "update_detail")
  /\ UNCHANGED flows
  /\ LET session == userSessions[u]
         validationType == updateValidationType(session.data.detailToUpdate)
     IN /\ validationType \in ValidationTypes
        /\ reply \in UpdateReplies[validationType]
        /\ IF reply.valid
              THEN LET stored == [ StoreCollected(session.data,
                                     storeKeyMapping(validationType),
                                     reply.extracted, reply.number)
                                   EXCEPT !.detailToUpdate = NULLTEXT ]
                   IN /\ userSessions' = [userSessions EXCEPT
                            ![u] = [session EXCEPT !.data = stored,
                                                   !.state = "admission_confirm"]]
                      /\ sent' = << Message("updated"),
                                    getPromptForState("admission_confirm", stored) >>
                      /\ last' = Last("update_accepted", reply.outcome, reply.value)
                      /\ corrections < MaxCorrections
                      /\ corrections' = corrections + 1
              ELSE /\ userSessions' = userSessions
                   /\ sent' = << [kind |-> "validation_reply", shown |-> <<reply.text>>],
                                 getPromptForState(session.state, session.data) >>
                   /\ last' = Last("update_rejected", reply.outcome, reply.value)
                   /\ UNCHANGED corrections
  /\ UNCHANGED now
  /\ DatabaseUnchanged

UpdateDetail(u) ==
  /\ InCase(u, "update_detail")
  /\ LET validationType == updateValidationType(userSessions[u].data.detailToUpdate)
     IN /\ validationType \in ValidationTypes
        /\ \E reply \in UpdateReplies[validationType] : UpdateDetailWith(u, reply)

(***************************************************************************)
(* appointmentService: slot generation and booking                         *)
(***************************************************************************)
\* endDate.setDate(endDate.getDate() + 3)
LookAheadDays == 3
\* for (let hour = 8; hour < 15; hour++)
FirstHour == 8
EndHour == 15
\* for (let minute = 0; minute < 60; minute += 30)
SlotMinutes == 30
\* dayOfWeek >= 0 && dayOfWeek <= 4, getDay() of a Sunday being 0
LastWeekday == 4

SlotsPerHour == 60 \div SlotMinutes
SlotsPerDay == (EndHour - FirstHour) * SlotsPerHour

getDay(date) == (date \div DayMs) % 7

\* startDate: tomorrow, 00:00:00.000
SlotStartDate(clock) == ((clock \div DayMs) + 1) * DayMs
\* endDate: startDate plus three days, 23:59:59.999
SlotEndDate(clock) == SlotStartDate(clock) + LookAheadDays * DayMs + (DayMs - 1)

\* the days the while (current < endDate) loop visits, in order
LoopDays(clock) ==
  LET count == CHOOSE n \in 0..(LookAheadDays + 2) :
                 /\ \A k \in 0..(n - 1) : SlotStartDate(clock) + k * DayMs < SlotEndDate(clock)
                 /\ ~(SlotStartDate(clock) + n * DayMs < SlotEndDate(clock))
  IN [k \in 1..count |-> SlotStartDate(clock) + (k - 1) * DayMs]

\* the same with hour <= 15
DayCandidatesThroughEndHour(current) ==
  [ i \in 1..(SlotsPerDay + 1) |->
      current + (FirstHour + (i - 1) \div SlotsPerHour) * HourMs
              + (((i - 1) % SlotsPerHour) * SlotMinutes) * MinuteMs ]

\* the slotDate values of one day in loop order: hour, then minute
DayCandidates(current) ==
  [ i \in 1..SlotsPerDay |->
      current + (FirstHour + (i - 1) \div SlotsPerHour) * HourMs
              + (((i - 1) % SlotsPerHour) * SlotMinutes) * MinuteMs ]

RECURSIVE CandidatesFrom(_, _)
CandidatesFrom(days, k) ==
  IF k > Len(days) THEN <<>>
  ELSE (IF getDay(days[k]) >= 0 /\ getDay(days[k]) <= LastWeekday
          THEN DayCandidates(days[k]) ELSE <<>>)
       \o CandidatesFrom(days, k + 1)

\* SELECT COUNT(*) AS cnt FROM appointments WHERE appdate = ?
CountAt(rows, appdate) == Cardinality({ r \in rows : r.appdate = appdate })

\* getAvailableSlots with isSlotBooked = false in its catch
getAvailableSlotsOptimistic(clock, rows, lookupFails) ==
  LET Free(slotDate) ==
        /\ slotDate > clock
        /\ slotDate \in lookupFails \/ CountAt(rows, formatDateTimeMySql(slotDate)) = 0
  IN SelectSeq(CandidatesFrom(LoopDays(clock), 1), Free)

\* getAvailableSlots.  lookupFails: the slot dates whose individual query
\* throws (such a slot stays marked as booked)
getAvailableSlots(clock, rows, lookupFails) ==
  LET Free(slotDate) ==
        /\ slotDate > clock
        /\ slotDate \notin lookupFails
        /\ CountAt(rows, formatDateTimeMySql(slotDate)) = 0
  IN SelectSeq(CandidatesFrom(LoopDays(clock), 1), Free)

\* the section of a grade text: numericGrade is 4 unless the text holds digits
section(grade) ==
  LET match == matchDigits(grade)
      numericGrade == IF match # NOTEXT THEN parseInt(match) ELSE 4
  IN IF numericGrade <= 3 THEN "Section 1" ELSE "Section 2"

\* possibleSlots.push with Section 1 kept to the hours before noon
SectionPushesMornings(sectionLabel, slotDate) ==
  sectionLabel = "Section 2" \/ slotDate % DayMs < 12 * HourMs

\* if (!isSlotBooked) possibleSlots.push({ slotDate }): section is not read
SectionPushes(sectionLabel, slotDate) == TRUE

\* getAvailableSlots(grade)
getAvailableSlotsOfGrade(grade, clock, rows, lookupFails) ==
  LET Pushed(slotDate) == SectionPushes(section(grade), slotDate)
  IN SelectSeq(getAvailableSlots(clock, rows, lookupFails), Pushed)

\* the grade texts the callers build, `Grade ${gradeNumber}`, gradeNumber
\* being NaN for a grade parseInt cannot read
GradeTexts == {"Grade 3", "Grade 4", "Grade 12", "Grade NaN"}

\* session.data.grade ? `Grade ${session.data.grade}` : 'Grade 4'
gradeForSlots(grade) == IF Truthy(grade) THEN "Grade " \o ToDecimal(grade) ELSE "Grade 4"

\* the failures of the individual slot queries the model draws from
SlotLookupFailures(clock) ==
  { {}, {SlotStartDate(clock) + DayMs + FirstHour * HourMs} }

\* an Invalid Date, and the DATETIME a lenient server stores for its text
InvalidDate == 0 - 3
ZeroDate == 0 - 3

\* WHERE appdate >= ? AND appdate <= ? over one second either side
CountAround(rows, slotDatetime) ==
  IF slotDatetime = InvalidDate
    THEN Cardinality({ r \in rows : r.appdate = ZeroDate })
    ELSE Cardinality({ r \in rows :
           /\ r.appdate >= formatDateTimeMySql(slotDatetime - SecondMs)
           /\ r.appdate <= formatDateTimeMySql(slotDatetime + SecondMs) })

\* the INSERT with the time a second after the slot
InsertAppointmentSecondLater(rows, id, studentId, slotDatetime) ==
  rows \cup { [ id |-> id,
                student_id |-> IF studentId = UNDEF THEN NULL ELSE studentId,
                appdate |-> formatDateTimeMySql(slotDatetime) + 1 ] }

\* INSERT INTO appointments (id, student_id, appdate, ...)
InsertAppointment(rows, id, studentId, slotDatetime) ==
  rows \cup { [ id |-> id,
                student_id |-> IF studentId = UNDEF THEN NULL ELSE studentId,
                appdate |-> IF slotDatetime = InvalidDate THEN ZeroDate
                            ELSE formatDateTimeMySql(slotDatetime) ] }

\* saveAppointment run alone.  failure: "none"; "error": a query, the
\* begin or the commit throws inside the try (rolled back, false);
\* "throws": getConnection or the rollback of the catch throws (the
\* exception reaches the caller).  An Invalid Date is refused by a strict
\* server ("error") and stored as the zero date by a lenient one.
SaveFailures == {"none", "error", "throws"}

saveAppointment(rows, studentId, slotDatetime, failure) ==
  IF failure = "throws" THEN [result |-> "throws", rows |-> rows]
  ELSE IF failure = "error" THEN [result |-> "false", rows |-> rows]
  ELSE IF CountAround(rows, slotDatetime) > 0 THEN [result |-> "false", rows |-> rows]
  ELSE [ result |-> "true",
         rows |-> InsertAppointment(rows, NextId(rows), studentId, slotDatetime) ]

\* appointmentService.checkExistingAppointment: the nearest future
\* appointment of the student, NULL for none or for a failed query.
\* MySQL compares the numeric column with the number the text starts with.
checkExistingAppointment(rows, studentId, queryFails) ==
  LET mine == { r \in rows : r.student_id = studentId /\ r.appdate >= SqlNow } IN
  IF queryFails \/ mine = {} THEN NULL
  ELSE (CHOOSE r \in mine : \A q \in mine : r.appdate <= q.appdate).appdate

\* the phone as MySQL reads it when compared with student_id
PhoneNumber == [u \in Guardians |-> parseInt(Phone[u])]

(***************************************************************************)
(* The meeting states                                                      *)
(***************************************************************************)
\* const chosenNum = parseInt(userMessage.trim(), 10), for every body
ChosenNum == { parseInt(trim(UserMessage[body])) : body \in SwitchBodies }

\* case 'meeting_offer'
MeetingOffer(u) ==
  /\ Sequential
  /\ InCase(u, "meeting_offer")
  /\ LET session == userSessions[u] IN
     \E yesNo \in YesNo, lookupFails \in SlotLookupFailures(now) :
       /\ last' = Last("meeting_offer", yesNo, NOTEXT)
       /\ IF yesNo = "yes"
            THEN LET slots == getAvailableSlotsOfGrade(
                                gradeForSlots(session.data.grade), now,
                                appointments, lookupFails) IN
                 IF Len(slots) = 0
                   THEN /\ userSessions' = [userSessions EXCEPT ![u] = NoSession]
                        /\ sent' = <<Message("no_slots")>>
                   ELSE /\ userSessions' = [userSessions EXCEPT
                              ![u].state = "meeting_show_slots",
                              ![u].data.slotsList = slots]
                        /\ sent' = <<[kind |-> "slots", shown |-> slots]>>
          ELSE IF yesNo = "no"
            THEN /\ userSessions' = [userSessions EXCEPT ![u] = NoSession]
                 /\ sent' = <<Message("no_worries")>>
          ELSE /\ userSessions' = userSessions
               /\ sent' = <<Message("did_not_understand")>>
  /\ UNCHANGED now
  /\ DatabaseUnchanged
  /\ CountersUnchanged

\* the students of the other users who book while this handler awaits
OtherStudents == {2}

\* the appointments table when this handler's saveAppointment starts.  taken:
\* between the fresh getAvailableSlots and that call another user's booking
\* of the same slot has been committed (followed in the last flow only)
RowsAtSave(rows, slotDatetime, taken) ==
  IF taken
    THEN InsertAppointment(rows, NextId(rows),
                           CHOOSE other \in OtherStudents : TRUE, slotDatetime)
    ELSE rows

\* case 'meeting_show_slots'.  lookupFails: the slot queries that throw;
\* chosenNum: parseInt(userMessage.trim(), 10)
MeetingShowSlotsOn(u, lookupFails, chosenNum) ==
  /\ Sequential
  /\ InCase(u, "meeting_show_slots")
  /\ LET session == userSessions[u]
     IN \E availableSlotsObjects \in
             {getAvailableSlotsOfGrade(gradeForSlots(session.data.grade), now,
                                       appointments, lookupFails)} :
          \E existingFails \in BOOLEAN, failure \in SaveFailures :
          \E taken \in IF /\ failure = "none"
                          /\ flows = MaxFlows
                          /\ Cardinality(appointments) < MaxAppointments
                         THEN BOOLEAN ELSE {FALSE} :
          IF chosenNum = NULL \/ chosenNum <= 0 \/ chosenNum > Len(availableSlotsObjects)
            THEN /\ ~taken
                 /\ userSessions' = userSessions
                 /\ sent' = << Message("invalid_slot_number"),
                               [kind |-> "slots", shown |-> availableSlotsObjects] >>
                 /\ last' = Last("slot_invalid", "", NOTEXT)
                 /\ UNCHANGED appointments
            ELSE \E appointmentDateTime \in {availableSlotsObjects[chosenNum]} :
                 \E saved \in {saveAppointment(
                                  RowsAtSave(appointments, appointmentDateTime, taken),
                                  session.data.studentId, appointmentDateTime, failure)} :
                 LET existingAppointment ==
                       checkExistingAppointment(appointments, PhoneNumber[u], existingFails)
                     conflict == failure = "none" /\ saved.result = "false"
                 IN IF existingAppointment # NULL
                      THEN /\ ~taken
                           /\ userSessions' = [userSessions EXCEPT
                                 ![u].data.pendingSlot = appointmentDateTime,
                                 ![u].data.existingAppointmentDate = DateOf(existingAppointment),
                                 ![u].state = "confirm_replace_appointment"]
                           /\ sent' = <<[kind |-> "already_have_appointment",
                                         shown |-> <<DateOf(existingAppointment),
                                                     appointmentDateTime>>]>>
                           /\ last' = Last("slot_pending", "", NOTEXT)
                           /\ UNCHANGED appointments
                    ELSE IF saved.result = "true"
                      THEN /\ Cardinality(appointments) < MaxAppointments
                           /\ appointments' = saved.rows
                           /\ userSessions' = [userSessions EXCEPT
                                 ![u].state = "awaiting_continue",
                                 ![u].data.slotsList = <<>>]
                           /\ sent' = << [kind |-> "meeting_scheduled",
                                          shown |-> <<appointmentDateTime>>],
                                         getPromptForState("awaiting_continue",
                                                           session.data) >>
                           /\ last' = Last("slot_booked", "", NOTEXT)
                    ELSE /\ taken => /\ Cardinality(appointments) < MaxAppointments
                                     /\ flows = MaxFlows
                         /\ appointments' = saved.rows
                         /\ userSessions' = [userSessions EXCEPT ![u] = NoSession]
                         /\ sent' = <<Message(IF saved.result = "false"
                                                THEN "slot_taken_or_problem"
                                                ELSE "error_scheduling")>>
                         /\ last' = Last("slot_not_booked", saved.result,
                                         IF conflict THEN "conflict" ELSE NOTEXT)
  /\ UNCHANGED <<now, student, studentcontactinfo>>
  /\ CountersUnchanged

MeetingShowSlots(u) ==
  \E lookupFails \in SlotLookupFailures(now), chosenNum \in ChosenNum :
    MeetingShowSlotsOn(u, lookupFails, chosenNum)

\* new Date(`${chosenSlot.slot_date} ${chosenSlot.slot_time}`): pendingSlot is
\* a Date and has neither property, so the text is "undefined undefined"
ReplacementDateTime(chosenSlot) == InvalidDate

\* case 'confirm_replace_appointment'
ConfirmReplaceAppointment(u) ==
  /\ Sequential
  /\ InCase(u, "confirm_replace_appointment")
  /\ LET session == userSessions[u] IN
     \E yesNo \in YesNo, failure \in SaveFailures :
       IF yesNo = "yes"
         THEN LET saved == saveAppointment(appointments, session.data.studentId,
                             ReplacementDateTime(session.data.pendingSlot), failure)
              IN IF saved.result = "true"
                   THEN /\ Cardinality(appointments) < MaxAppointments
                        /\ appointments' = saved.rows
                        /\ userSessions' = [userSessions EXCEPT
                              ![u].state = "awaiting_continue",
                              ![u].data.pendingSlot = UNDEF,
                              ![u].data.existingAppointmentDate = UNDEF]
                        /\ sent' = << Message("appointment_replaced"),
                                      getPromptForState("awaiting_continue", session.data) >>
                        /\ last' = Last("replace_booked", yesNo, NOTEXT)
                   ELSE /\ appointments' = saved.rows
                        /\ userSessions' = [userSessions EXCEPT ![u] = NoSession]
                        /\ sent' = <<Message(IF saved.result = "false"
                                               THEN "problem_replacing"
                                               ELSE "error_replacing")>>
                        /\ last' = Last("replace_not_booked", saved.result, NOTEXT)
         ELSE /\ userSessions' = [userSessions EXCEPT
                    ![u].state = "meeting_offer",
                    ![u].data.pendingSlot = UNDEF,
                    ![u].data.existingAppointmentDate = UNDEF]
              /\ sent' = << Message("existing_appointment_remains"),
                            getPromptForState("meeting_offer", session.data) >>
              /\ last' = Last("replace_declined", yesNo, NOTEXT)
              /\ UNCHANGED appointments
  /\ UNCHANGED <<now, student, studentcontactinfo>>
  /\ CountersUnchanged

(***************************************************************************)
(* case 'awaiting_continue'                                                *)
(***************************************************************************)
\* The pre-flow resumption logic replicated inside handleSession.  The
\* session's data is reset first; an exception of the admission data query
\* leaves the handler with the state still awaiting_continue.
\* the session going on with the data of the flow before
KeepData(session) == session

\* session.data = {}
ResetData(session) == [session EXCEPT !.data = EmptyData]

ResumeAdmissionOutcome(u, session, lookupFails, appointmentsFail, dataFails) ==
  LET phone == Phone[u]
      ids == IF lookupFails THEN {} ELSE ContactStudentIds(phone)
      reset == ResetData(session)
  IN IF ids = {}
       THEN { [thrown |-> FALSE,
               session |-> [reset EXCEPT !.state = "admission_displayname"],
               prompt |-> getPromptForState("admission_displayname", EmptyData)] }
       ELSE UNION {
         LET withId == [EmptyData EXCEPT !.studentId = studentId]
             existingAppointments == getAllFutureAppointments(studentId, appointmentsFail)
         IN IF Len(existingAppointments) > 0
              THEN { [thrown |-> FALSE,
                      session |-> [reset EXCEPT
                                     !.state = "confirm_book_another_appointment",
                                     !.data = [withId EXCEPT
                                       !.existingAppointments = existingAppointments]],
                      prompt |-> [kind |-> "found_appointments",
                                  shown |-> existingAppointments]] }
            ELSE IF dataFails
              THEN { [thrown |-> TRUE, session |-> [reset EXCEPT !.data = withId],
                      prompt |-> Message("")] }
            ELSE IF UnenrolledRowsById(studentId) # {}
              THEN { [thrown |-> FALSE,
                      session |-> [reset EXCEPT !.state = "confirm_existing_data",
                                                !.data = FoundData(studentId, row)],
                      prompt |-> [kind |-> "found_information",
                                  shown |-> << ShowText(FoundData(studentId, row).displayname),
                                               ShowText(FoundData(studentId, row).email),
                                               ShowNumber(FoundData(studentId, row).grade),
                                               ShowNumber(FoundData(studentId, row).semester),
                                               ShowText(FoundData(studentId, row).referral) >>]]
                     : row \in UnenrolledRowsById(studentId) }
            ELSE { [thrown |-> FALSE,
                    session |-> [reset EXCEPT !.state = "admission_displayname",
                                              !.data = withId],
                    prompt |-> getPromptForState("admission_displayname", withId)] }
         : studentId \in ids }

\* getUserInfo(userId) finds a row: a guardian with the phone (isGuardian:
\* the guardian table is not otherwise part of the model) or a contact row
UserInfoFound(u, isGuardian) ==
  isGuardian \/ \E r \in studentcontactinfo : r.mobile = Phone[u] \/ r.mobile2 = Phone[u]

\* intent: what determineIntent(userMessage, session.state) returns
AwaitingContinueOn(u, intent) ==
  /\ Sequential
  /\ InCase(u, "awaiting_continue")
  /\ LET session == userSessions[u] IN
       IF intent = "AskFAQ"
         THEN /\ userSessions' = userSessions
              /\ sent' = << Message("answer"),
                            getPromptForState(session.state, session.data) >>
              /\ last' = Last("awaiting_faq", intent, NOTEXT)
              /\ UNCHANGED flows
       ELSE IF intent = "AdmissionFlow"
         THEN /\ flows < MaxFlows
              /\ flows' = flows + 1
              /\ \E out \in UNION { ResumeAdmissionOutcome(u, session, lookupFails,
                                                              appointmentsFail, dataFails)
                                      : lookupFails \in BOOLEAN, appointmentsFail \in BOOLEAN,
                                        dataFails \in BOOLEAN } :
                     /\ userSessions' = [userSessions EXCEPT ![u] = out.session]
                     /\ sent' = IF out.thrown THEN <<>> ELSE <<out.prompt>>
                     /\ last' = Last("awaiting_admission",
                                     IF out.thrown THEN "thrown" ELSE intent, NOTEXT)
       ELSE \E isGuardian \in BOOLEAN, thrown \in BOOLEAN :
              /\ UNCHANGED flows
              /\ last' = Last("awaiting_other", IF thrown THEN "thrown" ELSE intent, NOTEXT)
              /\ IF thrown
                   THEN /\ userSessions' = userSessions
                        /\ sent' = <<>>
                 ELSE IF UserInfoFound(u, isGuardian)
                   THEN /\ userSessions' = [userSessions EXCEPT ![u] = NoSession]
                        /\ sent' = <<Message("found_your_info"), Message("how_can_i_help")>>
                 ELSE /\ userSessions' = userSessions
                      /\ sent' = <<Message("hello")>>
  /\ UNCHANGED <<now, corrections>>
  /\ DatabaseUnchanged

AwaitingContinue(u) == \E intent \in Intents : AwaitingContinueOn(u, intent)

(***************************************************************************)
(* default: a state the switch has no case for                             *)
(***************************************************************************)
SwitchCases ==
  { FieldStates[i] : i \in 1..Len(FieldStates) }
  \cup { "admission_confirm", "admission_choose_detail_to_change", "update_detail",
         "confirm_existing_data", "confirm_book_another_appointment",
         "check_existing_appointment", "meeting_offer", "meeting_show_slots",
         "confirm_replace_appointment", "awaiting_continue" }

admissionStates ==
  { "admission_displayname", "admission_email", "admission_grade",
    "admission_semester", "admission_referral", "admission_confirm",
    "admission_choose_detail_to_change", "update_detail" }

DefaultCaseOn(u, intent) ==
  /\ Sequential
  /\ Active(u)
  /\ ~userSessions[u].intentDisabled
  /\ userSessions[u].state \notin SwitchCases
  /\ LET session == userSessions[u] IN
     \E isGuardian \in BOOLEAN, thrown \in BOOLEAN :
       IF intent = "AdmissionFlow" /\ session.state \in admissionStates
         THEN /\ userSessions' = userSessions
              /\ sent' = <<getPromptForState(session.state, session.data)>>
              /\ last' = Last("default_admission", intent, NOTEXT)
       ELSE IF intent = "AskFAQ"
         THEN /\ userSessions' = [userSessions EXCEPT
                    ![u].previousState = session.state,
                    ![u].state = "awaiting_continue"]
              /\ sent' = <<Message("answer"), Message("how_can_i_help")>>
              /\ last' = Last("default_faq", intent, NOTEXT)
       ELSE /\ last' = Last("default_other", IF thrown THEN "thrown" ELSE intent, NOTEXT)
            /\ IF thrown
                 THEN /\ userSessions' = userSessions
                      /\ sent' = <<>>
               ELSE IF UserInfoFound(u, isGuardian)
                 THEN /\ userSessions' = [userSessions EXCEPT ![u] = NoSession]
                      /\ sent' = <<Message("found_your_info"), Message("how_can_i_help")>>
               ELSE /\ userSessions' = userSessions
                    /\ sent' = <<Message("hello")>>
  /\ UNCHANGED now
  /\ DatabaseUnchanged
  /\ CountersUnchanged

DefaultCase(u) == \E intent \in Intents : DefaultCaseOn(u, intent)

(***************************************************************************)
(* The bot from its start                                                  *)
(***************************************************************************)
Next ==
  \E u \in Users :
    \/ IgnoreOldMessage(u)
    \/ RateLimitedMessage(u)
    \/ StartAdmission(u)
    \/ AnswerWithoutSession(u)
    \/ GreetWithoutSession(u)
    \/ ExitCommand(u)
    \/ FieldCollection(u)
    \/ ConfirmExistingData(u)
    \/ ConfirmBookAnother(u)
    \/ AdmissionConfirm(u)
    \/ ChooseDetailToChange(u)
    \/ UpdateDetail(u)
    \/ MeetingOffer(u)
    \/ MeetingShowSlots(u)
    \/ AwaitingContinue(u)

Spec == Init /\ [][Next]_vars

(***************************************************************************)
(* handleSession as a function of the session it is given: the session is  *)
(* drawn from the session type, flags included, whether or not a run of    *)
(* the bot from its start builds it                                        *)
(***************************************************************************)
\* a session's data after a complete form, a chosen slot and a correction
FilledData ==
  LET slots == getAvailableSlots(StartOfRun, {}, {}) IN
  [ displayname |-> "John Smith", email |-> "j@x.io", grade |-> 3,
    semester |-> 2, referral |-> "Friend", studentId |-> 1,
    detailToUpdate |-> "email", slotsList |-> slots, pendingSlot |-> slots[2],
    existingAppointmentDate |-> slots[1], existingAppointments |-> <<>> ]

SessionStates == SwitchCases \cup {"admission_change_or_cancel"}

SessionType ==
  { [ present |-> TRUE, state |-> st, previousState |-> NOTEXT,
      intentDisabled |-> intentDisabled, data |-> FilledData ]
    : st \in SessionStates, intentDisabled \in BOOLEAN }

\* the tables: the record the data above belongs to, and one appointment
\* at the first slot of the list above, booked since the list was made, by
\* the user of the session or by another one; the one session is followed,
\* no further flow is set up
HandlerInit ==
  /\ \E session \in SessionType : userSessions = [u \in Users |-> session]
  /\ student = {StudentRow(1, 0)}
  /\ studentcontactinfo = {ContactRow(1, 1, "9665")}
  /\ \E studentId \in {1} \cup OtherStudents :
       appointments = {AppointmentRow(1, studentId,
                                      formatDateTimeMySql(4 * DayMs + 8 * HourMs))}
  /\ now = StartOfRun
  /\ sent = <<>>
  /\ last = Last("none", "", NOTEXT)
  /\ flows = MaxFlows
  /\ corrections = 0
  /\ calls = NoCalls
  /\ handlers = NoHandlers

\* the steps of handleSession, with the two early returns that come before it
HandlerNext ==
  \E u \in Users :
    \/ IgnoreOldMessage(u)
    \/ RateLimitedMessage(u)
    \/ CompleteAck(u)
    \/ ExitCommand(u)
    \/ FieldCollection(u)
    \/ ConfirmExistingData(u)
    \/ ConfirmBookAnother(u)
    \/ CheckExistingAppointment(u)
    \/ AdmissionConfirm(u)
    \/ ChooseDetailToChange(u)
    \/ UpdateDetail(u)
    \/ MeetingOffer(u)
    \/ MeetingShowSlots(u)
    \/ ConfirmReplaceAppointment(u)
    \/ AwaitingContinue(u)
    \/ DefaultCase(u)

SpecHandler == HandlerInit /\ [][HandlerNext]_vars

(***************************************************************************)
(* The pre-flow from both places it is written in: with no session, in     *)
(* client.on('message'), and from a session waiting in awaiting_continue   *)
(***************************************************************************)
\* no session, or the session a booked flow has left in awaiting_continue
PreflowSessions ==
  { NoSession, [NewSession("awaiting_continue") EXCEPT !.data = FilledData] }

\* one run of the pre-flow is followed
PreflowInit ==
  /\ \E session \in PreflowSessions : userSessions = [u \in Users |-> session]
  /\ \E db \in InitialDatabases :
       /\ student = db.student
       /\ studentcontactinfo = db.contact
       /\ appointments = db.appointments
  /\ now = StartOfRun
  /\ sent = <<>>
  /\ last = Last("none", "", NOTEXT)
  /\ flows = MaxFlows - 1
  /\ corrections = 0
  /\ calls = NoCalls
  /\ handlers = NoHandlers

PreflowNext ==
  \E u \in Users :
    \/ IgnoreOldMessage(u)
    \/ RateLimitedMessage(u)
    \/ StartAdmission(u)
    \/ AnswerWithoutSession(u)
    \/ GreetWithoutSession(u)
    \/ ExitCommand(u)
    \/ AwaitingContinue(u)

SpecPreflow == PreflowInit /\ [][PreflowNext]_vars

(***************************************************************************)
(* saveAppointment query by query, for callers whose transactions overlap. *)
(* appointments holds the committed rows; a row a transaction has inserted *)
(* and not committed is kept in its call.                                  *)
(***************************************************************************)
\* concurrent callers of saveAppointment
MaxCallers == 2

Callers == 1..MaxCallers

\* the slots and the students the callers book for
BookSlots ==
  LET slots == getAvailableSlots(StartOfRun, {}, {}) IN {slots[1], slots[2]}
BookStudents == {1, 2}

IdleCall ==
  [ pc |-> "idle", studentId |-> UNDEF, slotDatetime |-> UNDEF,
    cnt |-> UNDEF, newAppointmentId |-> UNDEF, result |-> "" ]

BookFrame ==
  UNCHANGED <<userSessions, student, studentcontactinfo, now, sent, last,
              flows, corrections, handlers>>

\* const connection = await pool.getConnection()
GetConnection(c) ==
  /\ calls[c].pc = "idle"
  /\ Cardinality(appointments) < MaxAppointments
  /\ \E studentId \in BookStudents, slotDatetime \in BookSlots :
       calls' = [calls EXCEPT ![c] = [IdleCall EXCEPT !.pc = "connected",
                                                      !.studentId = studentId,
                                                      !.slotDatetime = slotDatetime]]
  /\ UNCHANGED appointments
  /\ BookFrame

\* pool.getConnection() rejects: the call is outside the try, so the
\* rejection reaches the caller and there is no connection to release
GetConnectionFails(c) ==
  /\ calls[c].pc = "idle"
  /\ \E studentId \in BookStudents, slotDatetime \in BookSlots :
       calls' = [calls EXCEPT ![c] = [IdleCall EXCEPT !.pc = "returned",
                                                      !.studentId = studentId,
                                                      !.slotDatetime = slotDatetime,
                                                      !.result = "throws"]]
  /\ UNCHANGED appointments
  /\ BookFrame

\* what the catch block ends with: false, or the rejection of its own
\* await connection.rollback(), which nothing catches
CatchResult(rollbackFails) == IF rollbackFails THEN "throws" ELSE "false"

\* await connection.beginTransaction()
BeginTransaction(c) ==
  /\ calls[c].pc = "connected"
  /\ calls' = [calls EXCEPT ![c].pc = "begun"]
  /\ UNCHANGED appointments
  /\ BookFrame

\* SELECT COUNT(*) AS cnt FROM appointments WHERE appdate >= ? AND appdate <= ?
\* a plain read: it sees the committed rows and takes no lock
CheckAvailability(c) ==
  /\ calls[c].pc = "begun"
  /\ LET cnt == CountAround(appointments, calls[c].slotDatetime) IN
     IF cnt > 0
       THEN \* await connection.rollback(); return false.  When that rollback
            \* rejects, the catch block runs and rolls back once more
            \E rollbackFails \in BOOLEAN :
              calls' = [calls EXCEPT ![c].cnt = cnt, ![c].pc = "returned",
                                     ![c].result = CatchResult(rollbackFails)]
       ELSE calls' = [calls EXCEPT ![c].cnt = cnt, ![c].pc = "checked"]
  /\ UNCHANGED appointments
  /\ BookFrame

\* SELECT MAX(id) AS maxId FROM appointments FOR UPDATE: a locking read of
\* the latest committed rows; it waits while another transaction holds the lock
SelectMaxIdForUpdate(c) ==
  /\ calls[c].pc = "checked"
  /\ \A d \in Callers \ {c} : calls[d].pc \notin {"locked", "inserted"}
  /\ calls' = [calls EXCEPT ![c].newAppointmentId = NextId(appointments),
                            ![c].pc = "locked"]
  /\ UNCHANGED appointments
  /\ BookFrame

\* INSERT INTO appointments (id, student_id, appdate, ...)
InsertRow(c) ==
  /\ calls[c].pc = "locked"
  /\ calls' = [calls EXCEPT ![c].pc = "inserted"]
  /\ UNCHANGED appointments
  /\ BookFrame

\* await connection.commit(); return true
CommitCall(c) ==
  /\ calls[c].pc = "inserted"
  /\ appointments' = appointments \cup
       { AppointmentRow(calls[c].newAppointmentId, calls[c].studentId,
                        formatDateTimeMySql(calls[c].slotDatetime)) }
  /\ calls' = [calls EXCEPT ![c].pc = "returned", ![c].result = "true"]
  /\ BookFrame

\* catch (error) { await connection.rollback(); return false; }
QueryFails(c) ==
  /\ calls[c].pc \in {"connected", "begun", "checked", "locked", "inserted"}
  /\ \E rollbackFails \in BOOLEAN :
       calls' = [calls EXCEPT ![c].pc = "returned",
                              ![c].result = CatchResult(rollbackFails)]
  /\ UNCHANGED appointments
  /\ BookFrame

\* finally { connection.release(); }
ReleaseConnection(c) ==
  /\ calls[c].pc = "returned"
  /\ calls' = [calls EXCEPT ![c] = IdleCall]
  /\ UNCHANGED appointments
  /\ BookFrame

BookInit ==
  /\ userSessions = [u \in Users |-> NoSession]
  /\ student = {StudentRow(1, 0), StudentRow(2, 0)}
  /\ studentcontactinfo = {ContactRow(1, 1, "9665"), ContactRow(2, 2, "9666")}
  /\ appointments = {}
  /\ now = StartOfRun
  /\ sent = <<>>
  /\ last = Last("none", "", NOTEXT)
  /\ flows = 0
  /\ corrections = 0
  /\ calls = [c \in Callers |-> IdleCall]
  /\ handlers = NoHandlers

BookNext ==
  \E c \in Callers :
    \/ GetConnection(c)
    \/ GetConnectionFails(c)
    \/ BeginTransaction(c)
    \/ CheckAvailability(c)
    \/ SelectMaxIdForUpdate(c)
    \/ InsertRow(c)
    \/ CommitCall(c)
    \/ QueryFails(c)
    \/ ReleaseConnection(c)

SpecBook == BookInit /\ [][BookNext]_vars

(***************************************************************************)
(* client.on('message') await by await, for messages of one user that      *)
(* arrive while the session is in the field-collection states.  Every      *)
(* handler holds a reference to the one session object: sessionObject is   *)
(* that object, userSessions[u] is it while the Map holds it.              *)
(***************************************************************************)
\* messages of the user in flight
MaxMessages == 3
\* the saveAppointment calls made between the getAvailableSlots calls
MaxBookings == 1

Msgs == 1..MaxMessages

WaitingHandler == [pc |-> "waiting", exit |-> FALSE, validationType |-> ""]

MsgFrame ==
  /\ DatabaseUnchanged
  /\ UNCHANGED <<now, sent, flows, corrections, calls>>

\* const botStartTime = new Date(), at the start of the run
botStartTime == StartOfRun

\* msg.timestamp, in seconds: a second before that of the start, the second
\* of the start, the second after it
MessageTimestamps ==
  { botStartTime \div SecondMs - 1, botStartTime \div SecondMs,
    botStartTime \div SecondMs + 1 }

\* the guard with the start rounded down to its second
isOldBySeconds(timestamp) == timestamp < botStartTime \div SecondMs

\* msg.timestamp * 1000 < botStartTime.getTime()
isOld(timestamp) == timestamp * SecondMs < botStartTime

\* The handler up to its first await.  An old message: return.  Any other:
\* let session = userSessions.get(userId); then await determineIntent.
\* Messages are delivered in order: m's event is emitted after m-1's
ReceiveMessageAt(u, m, timestamp) ==
  /\ handlers.h[m].pc = "waiting"
  /\ \A k \in Msgs : k < m => handlers.h[k].pc # "waiting"
  /\ IF isOld(timestamp)
       THEN /\ handlers' = [handlers EXCEPT !.h[m].pc = "done"]
            /\ last' = Last("ignored_old", "", NOTEXT)
       ELSE /\ Active(u)
            /\ \E body \in Bodies :
                 handlers' = [handlers EXCEPT !.h[m] = [pc |-> "intent", exit |-> IsExit[body],
                                                         validationType |-> ""]]
            /\ last' = Last("received", "", NOTEXT)
  /\ UNCHANGED userSessions
  /\ MsgFrame

ReceiveMessage(u, m) ==
  \E timestamp \in MessageTimestamps : ReceiveMessageAt(u, m, timestamp)

\* determineIntent has answered: handleSession(userId, userMessage, session)
\* runs up to its first await
EnterHandleSession(u, m) ==
  /\ handlers.h[m].pc = "intent"
  /\ LET session == handlers.sessionObject IN
     IF session.intentDisabled
       THEN /\ handlers' = [handlers EXCEPT !.h[m].pc = "done"]
            /\ last' = LastOf(handlers.h[m].exit, "complete_ack", "", NOTEXT)
            /\ UNCHANGED userSessions
     ELSE IF handlers.h[m].exit
       THEN /\ userSessions' = [userSessions EXCEPT ![u] = NoSession]
            /\ handlers' = [handlers EXCEPT !.h[m].pc = "done"]
            /\ last' = LastOf(TRUE, "exit", "", NOTEXT)
     ELSE /\ IsFieldState(session.state)
          /\ handlers' = [handlers EXCEPT
               !.h[m].pc = "validating",
               !.h[m].validationType = fieldValidationType(session.state)]
          /\ last' = Last("validating", "", NOTEXT)
          /\ UNCHANGED userSessions
  /\ MsgFrame

\* validateInput has answered: the rest of the field-collection case up to
\* its next await
ValidationReturned(u, m) ==
  /\ handlers.h[m].pc = "validating"
  /\ LET session == handlers.sessionObject
         validationType == handlers.h[m].validationType
     IN \E reply \in CollectReplies[validationType] :
          IF reply.valid
            THEN LET stored == StoreCollected(session.data,
                                 storeKeyMapping(validationType),
                                 reply.extracted, reply.number)
                     nextState == fieldNextState(session.state)
                     updated == [session EXCEPT !.data = stored, !.state = nextState]
                 IN /\ handlers' = [handlers EXCEPT !.sessionObject = updated,
                                                    !.h[m].pc = "done"]
                    /\ userSessions' = [userSessions EXCEPT ![u] = updated]
                    /\ last' = Last("field_accepted", reply.outcome, reply.value)
            ELSE /\ handlers' = [handlers EXCEPT !.h[m].pc = "rejected"]
                 /\ last' = Last("field_rejected", reply.outcome, reply.value)
                 /\ UNCHANGED userSessions
  /\ MsgFrame

\* the two sendMessage of the rejection are over: userSessions.set(userId, session)
RejectionSent(u, m) ==
  /\ handlers.h[m].pc = "rejected"
  /\ handlers' = [handlers EXCEPT !.h[m].pc = "done"]
  /\ userSessions' = [userSessions EXCEPT ![u] = handlers.sessionObject]
  /\ last' = Last("rejection_sent", "", NOTEXT)
  /\ MsgFrame

MsgInit ==
  /\ userSessions = [u \in Users |-> NewSession("admission_displayname")]
  /\ student = {}
  /\ studentcontactinfo = {}
  /\ appointments = {}
  /\ now = StartOfRun
  /\ sent = <<>>
  /\ last = Last("none", "", NOTEXT)
  /\ flows = 1
  /\ corrections = 0
  /\ calls = NoCalls
  /\ handlers = [ sessionObject |-> NewSession("admission_displayname"),
                  h |-> [m \in Msgs |-> WaitingHandler] ]

MsgNext ==
  \E u \in Users, m \in Msgs :
    \/ ReceiveMessage(u, m)
    \/ EnterHandleSession(u, m)
    \/ ValidationReturned(u, m)
    \/ RejectionSent(u, m)

SpecMsg == MsgInit /\ [][MsgNext]_vars

(***************************************************************************)
(* appointmentService on its own: getAvailableSlots and saveAppointment    *)
(* called one after the other at any time of any day of the week.  sent    *)
(* holds the list the last getAvailableSlots returned, calls the           *)
(* saveAppointment calls made so far                                       *)
(***************************************************************************)
\* midnight, mid-morning and the last millisecond of each day of a week
SlotClocks ==
  { d * DayMs + t : d \in 0..6, t \in {0, 10 * HourMs + 250, DayMs - 1} }

\* the appointments found: none, one at tomorrow's first slot, one a second
\* after it
SlotTables(clock) ==
  LET first == formatDateTimeMySql(SlotStartDate(clock) + FirstHour * HourMs)
  IN { {}, {AppointmentRow(1, 1, first)}, {AppointmentRow(1, 1, first + 1)} }

\* the individual slot queries that throw: none, or that of the first slot
SlotFailureSets(clock) ==
  LET candidates == CandidatesFrom(LoopDays(clock), 1)
  IN { {}, {candidates[1]} }

\* whether an individual slot query threw during the call
LookupsLabel(lookupFails) == IF lookupFails = {} THEN "" ELSE "lookup_failed"

GenerateSlotsWith(lookupFails) ==
  /\ last' = Last("slots_generated", LookupsLabel(lookupFails),
                  IF last.branch = "slots_generated" THEN "again" ELSE NOTEXT)
  /\ \E grade \in GradeTexts :
       sent' = <<[kind |-> "slots",
                  shown |-> getAvailableSlotsOfGrade(grade, now, appointments,
                                                     lookupFails)]>>
  /\ UNCHANGED <<userSessions, now, calls, handlers>>
  /\ DatabaseUnchanged
  /\ CountersUnchanged

GenerateSlots == \E lookupFails \in SlotFailureSets(now) : GenerateSlotsWith(lookupFails)

\* the list getAvailableSlots returned last
ReturnedSlots == IF sent = <<>> THEN <<>> ELSE sent[1].shown

\* saveAppointment for the first or the last slot of that list
BookListedSlot ==
  /\ Len(calls) < MaxBookings
  /\ \E i \in {1, Len(ReturnedSlots)} \cap (1..Len(ReturnedSlots)),
        failure \in {"none", "error"} :
       LET studentId == CHOOSE id \in BookStudents : TRUE
           saved == saveAppointment(appointments, studentId, ReturnedSlots[i], failure) IN
       /\ appointments' = saved.rows
       /\ calls' = Append(calls, [ slotDatetime |-> ReturnedSlots[i],
                                   result |-> saved.result ])
       /\ last' = Last("save_appointment", saved.result, NOTEXT)
  /\ UNCHANGED <<userSessions, now, sent, handlers, student, studentcontactinfo>>
  /\ CountersUnchanged

\* the day after a saveAppointment call: the list returned before it is of
\* no use any more
NextDay ==
  /\ last.branch = "save_appointment"
  /\ now' = now + DayMs
  /\ sent' = <<>>
  /\ last' = Last("next_day", "", NOTEXT)
  /\ UNCHANGED <<userSessions, calls, handlers>>
  /\ DatabaseUnchanged
  /\ CountersUnchanged

SlotsInit ==
  /\ userSessions = [u \in Users |-> NoSession]
  /\ student = {StudentRow(1, 0), StudentRow(2, 0)}
  /\ studentcontactinfo = {ContactRow(1, 1, "9665"), ContactRow(2, 2, "9666")}
  /\ now \in SlotClocks
  /\ appointments \in SlotTables(now)
  /\ sent = <<>>
  /\ last = Last("none", "", NOTEXT)
  /\ flows = 0
  /\ corrections = 0
  /\ calls = NoCalls
  /\ handlers = NoHandlers

SlotsNext == GenerateSlots \/ BookListedSlot \/ NextDay

SpecSlots == SlotsInit /\ [][SlotsNext]_vars

(***************************************************************************)
(* Properties                                                              *)
(***************************************************************************)
\* C1: for any timestamp, of the saveAppointment calls whose transactions
\* overlap exactly one returns success, so that no two appointment rows
\* ever share a date-time.
C1_OneRowPerTimestamp ==
  /\ \A r, q \in appointments : r.appdate = q.appdate => r.id = q.id
  /\ \A c, d \in Callers :
       (/\ c # d
        /\ calls[c].pc = "returned" /\ calls[d].pc = "returned"
        /\ calls[c].slotDatetime = calls[d].slotDatetime)
       => ~(calls[c].result = "true" /\ calls[d].result = "true")

\* C2: the messages of one user are handled one at a time in arrival order:
\* the handling of a message reads the session only after the handling of
\* every earlier message has made its last read or write of the session.
C2_OneMessageAtATime ==
  \A m, n \in Msgs :
    (m < n /\ handlers.h[n].pc # "waiting") => handlers.h[m].pc = "done"

\* what handleSession does with the cancellation keyword
ExitDeletes(u) ==
  /\ last'.branch = "exit"
  /\ userSessions'[u] = NoSession
  /\ ~Active(u)'
  /\ sent' = <<Message("cancelled")>>
  /\ DatabaseUnchanged

Handled == last'.branch \notin {"ignored_old", "rate_limited"}

\* C4: once a session has intentDisabled set, every message produces only
\* the completion acknowledgment: the session (state, previousState, data,
\* intentDisabled) is unchanged and kept, and no table is written.
C4_CompleteSessionOnlyAcknowledges ==
  [][\A u \in Users :
       (Active(u) /\ userSessions[u].intentDisabled /\ Handled)
       => /\ last'.branch = "complete_ack"
          /\ userSessions'[u] = userSessions[u]
          /\ sent' = <<Message("process_complete")>>
          /\ DatabaseUnchanged]_vars

\* a message to a session with intentDisabled set has been acknowledged
C4_Acknowledged ==
  /\ last.branch = "complete_ack"
  /\ \E u \in Users : userSessions[u].present /\ userSessions[u].intentDisabled

\* the fixed order of the form and the key of each of its fields
FieldOrder ==
  << "admission_displayname", "admission_email", "admission_grade",
     "admission_semester", "admission_referral", "admission_confirm" >>
CanonicalKey == << "displayname", "email", "grade", "semester", "referral" >>
NumberKeys == {"grade", "semester"}

PositionOf(st) == CHOOSE i \in 1..Len(FieldOrder) : FieldOrder[i] = st

IsStored(data, key) ==
  IF key \in NumberKeys THEN data[key] # UNDEF ELSE data[key] # NOTEXT

\* the step is the field-collection case handling an Oracle reply
FieldReply == last'.branch \in {"field_accepted", "field_rejected"}

C6_RejectionKeepsSession ==
  [][\A u \in Users :
       (FieldReply /\ last'.outcome \in {"rejected", "unavailable"})
       => /\ last'.branch = "field_rejected"
          /\ userSessions'[u] = userSessions[u]]_vars

\* the Oracle was unavailable for an input at admission_grade
C6_RejectedAtGrade ==
  /\ last.branch = "field_rejected"
  /\ last.outcome = "unavailable"
  /\ \E u \in Users :
       /\ userSessions[u].state = "admission_grade"
       /\ userSessions[u].data.email = "j@x.io"

\* the integer of the first digit run of a normalized value, if it has one
HasDigit(value) == \E i \in 1..Len(value) : IsDigit(Char(value, i))
FirstDigitRun(value) ==
  LET from == CHOOSE i \in 1..Len(value) :
                /\ IsDigit(Char(value, i))
                /\ \A j \in 1..(i - 1) : ~IsDigit(Char(value, j))
      to == CHOOSE i \in from..Len(value) :
              /\ \A j \in from..i : IsDigit(Char(value, j))
              /\ i = Len(value) \/ ~IsDigit(Char(value, i + 1))
  IN DecimalValue(SubSeq(value, from, to))

\* the step accepts an input at admission_grade or admission_semester
NumberAccepted(u) ==
  /\ last'.branch = "field_accepted"
  /\ userSessions[u].state \in {"admission_grade", "admission_semester"}

\* C7 (as the code has it): whenever admission_grade (admission_semester)
\* accepts an input, data.grade (data.semester) is the integer of the first
\* digit run of the Oracle's normalized value if that value has a digit,
\* and null otherwise, and the state moves on to the next field.
C7_FirstDigitRunOrNull ==
  [][\A u \in Users :
       NumberAccepted(u)
       => LET i == PositionOf(userSessions[u].state) IN
          /\ userSessions'[u].data[CanonicalKey[i]] =
               IF HasDigit(last'.value) THEN FirstDigitRun(last'.value) ELSE NULL
          /\ userSessions'[u].state = FieldOrder[i + 1]]_vars

\* C7 (as stated): whenever admission_grade (admission_semester) accepts an
\* input, data.grade (data.semester) is an integer, the first digit run of
\* the normalized value.
C7_AlwaysAnInteger ==
  [][\A u \in Users :
       NumberAccepted(u)
       => LET i == PositionOf(userSessions[u].state) IN
          /\ userSessions'[u].data[CanonicalKey[i]] >= 0
          /\ HasDigit(last'.value)
          /\ userSessions'[u].data[CanonicalKey[i]] = FirstDigitRun(last'.value)
          /\ userSessions'[u].state = FieldOrder[i + 1]]_vars

\* "three" was accepted as "3" and stored as the integer 3
C7_ThreeStored ==
  /\ last.branch = "field_accepted"
  /\ last.value = "3"
  /\ \E u \in Users :
       /\ userSessions[u].state = "admission_semester"
       /\ userSessions[u].data.grade = 3

\* the persist step of user u's session did what the specification says
PersistedAsSpecified(u) ==
  LET data == userSessions[u].data
      phone == Phone[u]
  IN IF Truthy(data.studentId)
       THEN /\ {r.id : r \in student'} = {r.id : r \in student}
            /\ {r.id : r \in studentcontactinfo'} = {r.id : r \in studentcontactinfo}
            /\ \A r \in student' :
                 IF r.id = data.studentId
                   THEN /\ r.displayname = data.displayname
                        /\ r.grade = data.grade
                        /\ r.semester = data.semester
                        /\ r.referral = data.referral
                   ELSE r \in student
            /\ \A r \in studentcontactinfo' :
                 IF r.student_id = data.studentId
                   THEN r.email = data.email /\ r.mobile = phone
                   ELSE r \in studentcontactinfo
       ELSE \E s \in student' \ student, c \in studentcontactinfo' \ studentcontactinfo :
              /\ student' = student \cup {s}
              /\ studentcontactinfo' = studentcontactinfo \cup {c}
              /\ s.id \notin {r.id : r \in student}
              /\ c.student_id = s.id
              /\ s.displayname = data.displayname
              /\ c.email = data.email
              /\ userSessions'[u].data.studentId = s.id

C9_PersistFailureEndsSession ==
  [][\A u \in Users :
       userSessions[u].state = "admission_confirm"
       => /\ last'.branch = "persist_failed"
             => userSessions'[u] = NoSession /\ sent' = <<Message("problem_saving")>>
          /\ last'.branch = "persist_ok"
             => /\ userSessions'[u].present
                /\ userSessions'[u].state = "meeting_offer"
                /\ userSessions'[u].data.displayname = userSessions[u].data.displayname]_vars

\* the INSERT of the contact row failed after the student row was inserted
C9_FailedHalfWay ==
  /\ last.branch = "persist_failed"
  /\ \A u \in Users : userSessions[u] = NoSession
  /\ \E s \in student : \A c \in studentcontactinfo : c.student_id # s.id

\* the states of a session before its persist step
BeforePersist ==
  { FieldStates[i] : i \in 1..Len(FieldStates) }
  \cup { "admission_confirm", "admission_choose_detail_to_change", "update_detail",
         "confirm_existing_data" }

\* C10: data.studentId is set if and only if the session works on an
\* existing, not yet enrolled admission record: a session before its
\* persist step that carries a studentId carries that of an un-enrolled
\* record, and a session filling in a fresh form carries none.
C10_StudentIdIffUnenrolledRecord ==
  \A u \in Users :
    (Active(u) /\ userSessions[u].state \in BeforePersist)
    => /\ Truthy(userSessions[u].data.studentId)
          => \E r \in student : r.id = userSessions[u].data.studentId /\ r.enrolled = 0
       /\ IsFieldState(userSessions[u].state)
          => ~Truthy(userSessions[u].data.studentId)
       /\ userSessions[u].state = "confirm_existing_data"
          => Truthy(userSessions[u].data.studentId)

(***************************************************************************)
(* The meeting states                                                      *)
(***************************************************************************)
\* C11: at meeting_show_slots, when the booking of the chosen slot fails
\* because the slot was taken concurrently, the session is kept and the
\* current availability is listed again without the taken timestamp; the
\* session is ended only when the booking fails for another reason.
C11_ConflictRelists ==
  [][\A u \in Users :
       (userSessions[u].state = "meeting_show_slots" /\ last'.branch = "slot_not_booked")
       => IF last'.value = "conflict"
            THEN /\ userSessions'[u].present
                 /\ userSessions'[u].state = "meeting_show_slots"
                 /\ \E i \in 1..Len(sent') :
                      /\ sent'[i].kind = "slots"
                      /\ \A k \in 1..Len(sent'[i].shown) :
                           CountAt(appointments',
                                   formatDateTimeMySql(sent'[i].shown[k])) = 0
            ELSE userSessions'[u] = NoSession]_vars

\* the future appointments of a student
FutureAppointmentsOf(studentId) ==
  { r \in appointments : r.student_id = studentId /\ r.appdate >= SqlNow }

\* C12: at meeting_show_slots with a valid index, if the session's student
\* (data.studentId) already has a future appointment no booking is
\* attempted: the chosen slot is stored as pendingSlot, the existing
\* appointment's time as existingAppointmentDate and the state becomes
\* confirm_replace_appointment; a booking is attempted only when that
\* student has no future appointment.
C12_NoBookingWithFutureAppointment ==
  [][\A u \in Users :
       (/\ userSessions[u].state = "meeting_show_slots"
        /\ last'.branch \in {"slot_pending", "slot_booked", "slot_not_booked"})
       => LET mine == FutureAppointmentsOf(userSessions[u].data.studentId) IN
          IF mine # {}
            THEN /\ last'.branch = "slot_pending"
                 /\ appointments' = appointments
                 /\ userSessions'[u].state = "confirm_replace_appointment"
                 /\ userSessions'[u].data.pendingSlot # UNDEF
                 /\ userSessions'[u].data.existingAppointmentDate
                      \in { DateOf(r.appdate) : r \in mine }
            ELSE last'.branch # "slot_pending"]_vars

\* C13: at confirm_replace_appointment with 'yes' the Slot Allocator is asked
\* to book exactly the timestamp stashed as pendingSlot; when the booking
\* succeeds the new row carries that timestamp, the session is in
\* awaiting_continue with pendingSlot and existingAppointmentDate removed,
\* and the prior appointment rows are still present.
C13_ReplacementBooksPendingSlot ==
  [][\A u \in Users :
       (/\ userSessions[u].state = "confirm_replace_appointment"
        /\ last'.branch = "replace_booked")
       => /\ \E r \in appointments' \ appointments :
               r.appdate = formatDateTimeMySql(userSessions[u].data.pendingSlot)
          /\ appointments \subseteq appointments'
          /\ userSessions'[u].state = "awaiting_continue"
          /\ userSessions'[u].data.pendingSlot = UNDEF
          /\ userSessions'[u].data.existingAppointmentDate = UNDEF]_vars

(***************************************************************************)
(* Questions in the middle of a flow                                       *)
(***************************************************************************)
\* handleSession's switch on a message that determineIntent classifies as
\* intent.  client.on('message') has the classification before it calls
\* handleSession; only awaiting_continue and default ask for it and use it
HandleSessionOn(u, intent) ==
  \/ FieldCollection(u)
  \/ ConfirmExistingData(u)
  \/ ConfirmBookAnother(u)
  \/ CheckExistingAppointment(u)
  \/ AdmissionConfirm(u)
  \/ ChooseDetailToChange(u)
  \/ UpdateDetail(u)
  \/ MeetingOffer(u)
  \/ MeetingShowSlots(u)
  \/ ConfirmReplaceAppointment(u)
  \/ AwaitingContinueOn(u, intent)
  \/ DefaultCaseOn(u, intent)

\* C14: in every flow state other than awaiting_continue a message the
\* Oracle classifies as question-answering sets previousState to the current
\* state and state to awaiting_continue; a later message in
\* awaiting_continue that is neither admission- nor FAQ-classified restores
\* state to previousState and clears previousState, or ends the session when
\* there is no previousState.
C14_QuestionSuspendsAndResumes ==
  [][\A u \in Users :
       /\ (/\ Active(u)
           /\ userSessions[u].state # "awaiting_continue"
           /\ HandleSessionOn(u, "AskFAQ"))
          => /\ userSessions'[u].previousState = userSessions[u].state
             /\ userSessions'[u].state = "awaiting_continue"
       /\ (/\ InCase(u, "awaiting_continue")
           /\ HandleSessionOn(u, "Unknown"))
          => IF userSessions[u].previousState # NOTEXT
               THEN /\ userSessions'[u].state = userSessions[u].previousState
                    /\ userSessions'[u].previousState = NOTEXT
               ELSE userSessions'[u] = NoSession]_vars

\* C15: a question-answering message received in admission_confirm leaves
\* previousState = admission_confirm and the question answered; after the
\* user's next non-admission message the session has intentDisabled = true
\* and has not resumed admission_confirm.
C15_QuestionAtConfirmCompletes ==
  [][\A u \in Users :
       /\ (InCase(u, "admission_confirm") /\ HandleSessionOn(u, "AskFAQ"))
          => /\ userSessions'[u].previousState = "admission_confirm"
             /\ \E i \in 1..Len(sent') : sent'[i] = Message("answer")
       /\ (/\ Active(u)
           /\ userSessions[u].previousState = "admission_confirm"
           /\ \E intent \in Intents \ {"AdmissionFlow"} : HandleSessionOn(u, intent))
          => /\ userSessions'[u].intentDisabled
             /\ userSessions'[u].state # "admission_confirm"]_vars

(***************************************************************************)
(* The pre-flow                                                            *)
(***************************************************************************)
\* what the tables hold for a phone: the students whose contact row names it
StudentsOfPhone(phone) ==
  { c.student_id : c \in { r \in studentcontactinfo :
                             r.mobile = phone \/ r.mobile2 = phone } }

\* the state the tables alone decide for the session set up for u
DecidedByTables(u) ==
  LET ids == StudentsOfPhone(Phone[u])
      new == userSessions'[u]
  IN /\ new.present
     /\ IF ids = {}
          THEN new.state = "admission_displayname" /\ new.data = EmptyData
          ELSE \E id \in ids :
                 /\ new.data.studentId = id
                 /\ IF \E a \in appointments : a.student_id = id /\ a.appdate >= SqlNow
                      THEN new.state = "confirm_book_another_appointment"
                    ELSE IF \E r \in student : r.id = id /\ r.enrolled = 0
                      THEN /\ new.state = "confirm_existing_data"
                           /\ \E r \in student, c \in studentcontactinfo :
                                /\ r.id = id /\ r.enrolled = 0 /\ c.student_id = id
                                /\ new.data.displayname = r.displayname
                                /\ new.data.email = c.email
                                /\ new.data.grade = (IF r.grade > 0 THEN r.grade ELSE NULL)
                                /\ new.data.semester =
                                     (IF r.semester > 0 THEN r.semester ELSE NULL)
                                /\ new.data.referral =
                                     (IF r.referral = "" THEN "Unknown" ELSE r.referral)
                    ELSE new.state = "admission_displayname"

Decision(out) == [state |-> out.session.state, data |-> out.session.data]

SameDecision(u, lookupFails, appointmentsFail, dataFails) ==
  { Decision(out) : out \in StartAdmissionOutcome(u, lookupFails, appointmentsFail,
                                                  dataFails) }
  = { Decision(out) : out \in ResumeAdmissionOutcome(u, userSessions[u], lookupFails,
                                                     appointmentsFail, dataFails) }

JustGenerated == last.branch = "slots_generated"

\* C18: every slot returned by slot generation lies on one of exactly three
\* calendar days: tomorrow, the day after, and the day after that; no slot
\* on today or on a fourth or later day is returned, whatever the current
\* date and time.
C18_ThreeDaysFromTomorrow ==
  JustGenerated
  => \A k \in 1..Len(ReturnedSlots) :
       (ReturnedSlots[k] \div DayMs) - (now \div DayMs) \in {1, 2, 3}

\* C19: every slot returned by slot generation is on a weekday from Sunday
\* to Thursday, at a half-hour mark from 08:00 to 14:30 inclusive, strictly
\* later than the current time, and the returned list is in strictly
\* increasing chronological order, without duplicates.
C19_WeekdayHalfHoursInOrder ==
  JustGenerated
  => \A k \in 1..Len(ReturnedSlots) :
       LET slot == ReturnedSlots[k]
           timeOfDay == slot % DayMs
       IN /\ (slot \div DayMs) % 7 \in 0..4
          /\ timeOfDay % (30 * 60 * 1000) = 0
          /\ timeOfDay >= 8 * 60 * 60 * 1000
          /\ timeOfDay <= (14 * 60 + 30) * 60 * 1000
          /\ slot > now
          /\ k > 1 => ReturnedSlots[k - 1] < slot

\* slots of two days have been returned, the first of them a whole day
C19_TwoDaysListed ==
  /\ JustGenerated
  /\ Len(ReturnedSlots) > 14
  /\ ReturnedSlots[1] % DayMs = 8 * HourMs
  /\ ReturnedSlots[14] % DayMs = 14 * HourMs + 30 * MinuteMs
  /\ ReturnedSlots[15] \div DayMs > ReturnedSlots[14] \div DayMs

\* C20: slot generation never returns a timestamp for which an appointment
\* row with that exact date-time existed when the candidate was checked; a
\* candidate whose Gateway lookup fails is treated as booked; hence after a
\* successful booking of timestamp t every later generation excludes t.
C20_BookedSlotsExcluded ==
  [][last'.branch = "slots_generated"
     => \A lookupFails \in SlotFailureSets(now) :
          last'.outcome = LookupsLabel(lookupFails)
          => LET found == { DateOf(r.appdate) : r \in appointments }
                 booked == { calls[c].slotDatetime :
                               c \in { i \in 1..Len(calls) : calls[i].result = "true" } }
             IN \A slot \in found \cup lookupFails \cup booked :
                  \A k \in 1..Len(sent'[1].shown) : sent'[1].shown[k] # slot]_vars

\* a list has been returned after a slot of the day was booked and while the
\* lookup of another one failed
C20_ListedAfterBooking ==
  /\ JustGenerated
  /\ Len(ReturnedSlots) > 0
  /\ \E c \in 1..Len(calls) :
       /\ calls[c].result = "true"
       /\ calls[c].slotDatetime \div DayMs = ReturnedSlots[1] \div DayMs
       /\ calls[c].slotDatetime < ReturnedSlots[1]

\* later times of the same day as clock: no midnight lies in between
LaterToday(clock) ==
  { later \in {clock + 250, clock + 13 * HourMs} :
      later \div DayMs = clock \div DayMs }

\* the list of the call made now (with any grade) equals that of the call
\* before it (with any grade) and that of a call made later today with a
\* grade of either section
SameListAgain(lookupFails) ==
  /\ sent'[1].shown = sent[1].shown
  /\ \A later \in LaterToday(now), grade \in {"Grade 3", "Grade 12"} :
       getAvailableSlotsOfGrade(grade, later, appointments, lookupFails)
         = sent'[1].shown

\* C21 (as amended): slot generation is a function of the current time, the
\* appointment table and the set of slot lookups that fail: two invocations
\* with no intervening booking, no midnight crossed and the same lookups
\* failing return the identical ordered list, whatever grades they are given.
C21_SameListWhenSameLookupsFail ==
  [][(JustGenerated /\ last'.branch = "slots_generated" /\ last'.outcome = last.outcome)
     => \A lookupFails \in SlotFailureSets(now) :
          last.outcome = LookupsLabel(lookupFails) => SameListAgain(lookupFails)]_vars

\* C21: slot generation is a function of the current time and the
\* appointment table only: two invocations with no intervening booking and
\* no time boundary crossed return the identical ordered list, also when
\* they are given different grades.
C21_SameListAlways ==
  [][(JustGenerated /\ last'.branch = "slots_generated")
     => sent'[1].shown = sent[1].shown]_vars

\* a second list has been returned right after a first one, both with the
\* lookup of the first slot failing
C21_GeneratedTwice ==
  /\ JustGenerated
  /\ last.value = "again"
  /\ last.outcome = "lookup_failed"
  /\ Len(ReturnedSlots) > 14

\* C22: saveAppointment always completes with a success/failure value: for
\* every Gateway failure at any step (obtaining the connection, beginning
\* the transaction, the availability check, id allocation, insert, commit,
\* rollback) it returns false to the caller and never raises an exception.
C22_NeverRaises ==
  \A c \in Callers :
    calls[c].pc = "returned" => calls[c].result \in {"true", "false"}

\* C23: if an appointment row exists within one second before or after the
\* requested timestamp when saveAppointment performs its check, the call
\* returns the conflict outcome and the appointments table is left exactly
\* as it was.
C23_ConflictReturnsFalse ==
  [][\A c \in Callers :
       (/\ CheckAvailability(c)
        /\ CountAround(appointments, calls[c].slotDatetime) > 0)
       => /\ calls'[c].pc = "returned"
          /\ calls'[c].result = "false"
          /\ appointments' = appointments]_vars

\* the last inbound message met an Oracle or Gateway failure outside the
\* persist step and the booking step
FailedElsewhere(l) ==
  /\ l.outcome \in {"thrown", "unavailable"}
  /\ l.branch \notin {"persist_failed", "slot_not_booked", "replace_not_booked"}

\* C24: except for a failure of the persist step at admission_confirm or of
\* the booking step, any Oracle, Gateway or Channel failure while handling
\* a message leaves the user's session present with its state and data
\* exactly as before the message.
C24_FailureKeepsSession ==
  [][\A u \in Users :
       (userSessions[u].present /\ FailedElsewhere(last'))
       => userSessions'[u] = userSessions[u]]_vars

\* the handling of the last inbound message met an external failure: an
\* exception of a Gateway call, an Oracle that did not answer, a persist or
\* a booking that failed
MetFailure(l) ==
  \/ l.outcome \in {"thrown", "unavailable", "throws"}
  \/ l.branch = "persist_failed"
  \/ l.branch \in {"slot_not_booked", "replace_not_booked"} /\ l.value # "conflict"

\* C25: every inbound message that is not ignored and whose handling meets
\* an external failure leads to a user-visible message being sent for that
\* inbound message; no external failure ends the handling without any
\* reply.
C25_FailureIsAnswered ==
  [][(last'.branch # "ignored_old" /\ MetFailure(last')) => sent' # <<>>]_vars

\* the key of data that holds the field the user named
KeyOfDetail(detail) == IF detail = "name" THEN "displayname" ELSE detail

\* C26: at update_detail, on acceptance only the key of the chosen field
\* changes in data, detailToUpdate is cleared and the state becomes
\* admission_confirm (studentId and the four other fields are unchanged);
\* on rejection the state, detailToUpdate and all fields are unchanged.
C26_UpdateChangesOneKey ==
  [][\A u \in Users :
       UpdateDetail(u)
       => LET before == userSessions[u]
              after == userSessions'[u]
              key == KeyOfDetail(before.data.detailToUpdate)
          IN IF last'.branch = "update_accepted"
               THEN /\ after.state = "admission_confirm"
                    /\ after.data.detailToUpdate = NULLTEXT
                    /\ \A k \in DOMAIN before.data \ {key, "detailToUpdate"} :
                         after.data[k] = before.data[k]
                    /\ after = [before EXCEPT !.state = after.state,
                                              !.data = after.data]
               ELSE after = before]_vars

\* a correction of the email has been accepted: data holds the new email
\* next to the name and the semester collected before
C26_FieldCorrected ==
  \E u \in Users :
    /\ last.branch = "update_accepted"
    /\ userSessions[u].state = "admission_confirm"
    /\ userSessions[u].data.detailToUpdate = NULLTEXT
    /\ userSessions[u].data.email = "J@X.io"
    /\ userSessions[u].data.displayname = "John Smith"
    /\ userSessions[u].data.semester = 2

\* C27: for every field, every raw input and every Oracle response,
\* update_detail accepts exactly when the corresponding field-collection
\* state would accept, and on acceptance stores under the field's key the
\* same value that the field-collection state would have stored for that
\* input and response.
C27_UpdateStoresAsCollection ==
  [][\A u \in Users, validationType \in ValidationTypes, body \in SwitchBodies :
       \A reply \in validateInput(validationType, UserMessage[body]) :
         UpdateDetailWith(u, UpdateReply(reply, UserMessage[body]))
         => LET collected == CollectReply(reply, UserMessage[body])
                storeKey == storeKeyMapping(validationType)
            IN /\ collected.valid = UpdateReply(reply, UserMessage[body]).valid
               /\ collected.valid
                  => userSessions'[u].data[storeKey]
                       = StoreCollected(userSessions[u].data, storeKey,
                                        collected.extracted,
                                        collected.number)[storeKey]]_vars

\* the session of u and the three tables are as they were
NothingChangedFor(u) ==
  /\ userSessions'[u] = userSessions[u]
  /\ appointments' = appointments
  /\ student' = student
  /\ studentcontactinfo' = studentcontactinfo

\* C28: malformed input never changes the session: at
\* admission_choose_detail_to_change an input outside {name, email, grade,
\* semester, referral}, and at meeting_show_slots a non-numeric input or an
\* index below 1 or above the length of the current slot list, leave state
\* and data unchanged, attempt no booking and write nothing to the Gateway,
\* for any number of attempts.
C28_MalformedInputChangesNothing ==
  [][\A u \in Users :
       /\ \A detail \in Detail \ {"name", "email", "grade", "semester", "referral"} :
            ChooseDetailToChangeOn(u, detail) => NothingChangedFor(u)
       /\ \A lookupFails \in SlotLookupFailures(now), chosenNum \in ChosenNum :
            (/\ MeetingShowSlotsOn(u, lookupFails, chosenNum)
             /\ \/ chosenNum = NULL
                \/ chosenNum < 1
                \/ chosenNum > Len(getAvailableSlots(now, appointments, lookupFails)))
            => NothingChangedFor(u)]_vars

\* a slot number has been refused, the session still waiting for one with
\* the list it was shown
C28_SlotNumberRefused ==
  \E u \in Users :
    /\ last.branch = "slot_invalid"
    /\ userSessions[u].state = "meeting_show_slots"
    /\ Len(userSessions[u].data.slotsList) > 0
    /\ Len(sent) = 2

\* C29: when a booking attempted from meeting_show_slots succeeds, exactly
\* one appointment row for data.studentId at the chosen timestamp has been
\* inserted, the session's state is awaiting_continue and data.slotsList is
\* removed; the state never becomes awaiting_continue from
\* meeting_show_slots without such a row having been committed.
C29_BookedMeansOneRow ==
  [][\A u \in Users :
       \A lookupFails \in SlotLookupFailures(now), chosenNum \in ChosenNum :
         (/\ \/ last'.branch = "slot_booked"
             \/ userSessions'[u].state = "awaiting_continue"
          /\ MeetingShowSlotsOn(u, lookupFails, chosenNum))
         => LET chosen == getAvailableSlots(now, appointments, lookupFails)[chosenNum]
                inserted == appointments' \ appointments
            IN /\ appointments \subseteq appointments'
               /\ Cardinality(inserted) = 1
               /\ \A r \in inserted :
                    /\ r.student_id = userSessions[u].data.studentId
                    /\ DateOf(r.appdate) = chosen
               /\ userSessions'[u].state = "awaiting_continue"
               /\ userSessions'[u].data.slotsList = <<>>
               /\ userSessions'[u].data
                    = [userSessions[u].data EXCEPT !.slotsList = <<>>]]_vars

\* a slot has been booked from meeting_show_slots: its row is in the table
\* and the session waits in awaiting_continue
C29_SlotBooked ==
  \E u \in Users :
    /\ last.branch = "slot_booked"
    /\ userSessions[u].state = "awaiting_continue"
    /\ \E r \in appointments :
         /\ r.student_id = userSessions[u].data.studentId
         /\ DateOf(r.appdate) = sent[1].shown[1]

\* the five values of a review prompt for the data of a session
ReviewOf(data) ==
  << ShowText(data.displayname), ShowText(data.email), ShowNumber(data.grade),
     ShowNumber(data.semester), ShowText(data.referral) >>

\* the step of u that puts the session in admission_confirm sends, as its
\* last message, the review prompt of the data the session then holds
ReviewShowsData(u) ==
  (/\ userSessions'[u].present
   /\ userSessions'[u].state = "admission_confirm"
   /\ userSessions[u].state # "admission_confirm")
  => /\ sent' # <<>>
     /\ sent'[Len(sent')] = [ kind |-> "prompt:admission_confirm",
                              shown |-> ReviewOf(userSessions'[u].data) ]

\* a step that leaves the session in admission_confirm changes none of its
\* data and sends no review prompt
ReviewStands(u) ==
  (/\ userSessions[u].state = "admission_confirm"
   /\ userSessions'[u].present
   /\ userSessions'[u].state = "admission_confirm")
  => /\ userSessions'[u].data = userSessions[u].data
     /\ \A i \in 1..Len(sent') : sent'[i].kind # "prompt:admission_confirm"

\* after the step the AdmissionRecord and the ContactInfo of the session's
\* record hold the five values data held before it
WrittenAsHeld(u) ==
  LET data == userSessions[u].data IN
  \E s \in student', c \in studentcontactinfo' :
    /\ IF Truthy(data.studentId) THEN s.id = data.studentId ELSE s \notin student
    /\ c.student_id = s.id
    /\ s.displayname = data.displayname
    /\ s.grade = data.grade
    /\ s.semester = data.semester
    /\ s.referral = data.referral
    /\ c.email = data.email

C31_OldMessageHasNoEffect ==
  [][\A u \in Users, m \in Msgs, timestamp \in MessageTimestamps :
       (timestamp * SecondMs < botStartTime /\ ReceiveMessageAt(u, m, timestamp))
       => /\ userSessions' = userSessions
          /\ handlers'.sessionObject = handlers.sessionObject
          /\ sent' = sent
          /\ DatabaseUnchanged
          /\ handlers'.h[m].pc = "done"
          /\ \A k \in Msgs \ {m} : handlers'.h[k] = handlers.h[k]]_vars

\* an old message has been dropped while the form was being filled in
C31_OldMessageDropped ==
  /\ last.branch = "ignored_old"
  /\ \E u \in Users : userSessions[u].state = "admission_email"
  /\ \E m \in Msgs : handlers.h[m].pc = "done"

\* the slot list most recently sent to the user: the one of the last reply
\* if that reply listed slots, else the one meeting_offer sent and kept in
\* data.slotsList
LastListSent(u) ==
  LET lists == { i \in 1..Len(sent) :
                   sent[i].kind \in {"slots", "prompt:meeting_show_slots"} }
  IN IF lists # {} THEN sent[CHOOSE i \in lists : TRUE].shown
     ELSE userSessions[u].data.slotsList

\* C32: when the user answers index k at meeting_show_slots, the timestamp
\* that is booked (or stashed as pendingSlot) is the timestamp at position k
\* of the slot list most recently sent to that user, also when rows for
\* other bookings have been inserted since the list was displayed.
C32_AnswerPicksFromSentList ==
  [][\A u \in Users :
       \A lookupFails \in SlotLookupFailures(now), chosenNum \in ChosenNum :
         (/\ last'.branch \in {"slot_booked", "slot_pending"}
          /\ MeetingShowSlotsOn(u, lookupFails, chosenNum))
         => /\ chosenNum \in 1..Len(LastListSent(u))
            /\ last'.branch = "slot_booked"
               => \E r \in appointments' \ appointments :
                    DateOf(r.appdate) = LastListSent(u)[chosenNum]
            /\ last'.branch = "slot_pending"
               => userSessions'[u].data.pendingSlot = LastListSent(u)[chosenNum]]_vars

\* every AdmissionRecord has a ContactInfo row referring to it
EveryRecordHasContact ==
  \A s \in student : \E c \in studentcontactinfo : c.student_id = s.id

\* what a failed persist step of user u's session has left behind: the
\* writes of the queries before the failing one
LeftByFailedStep(u) ==
  LET data == userSessions[u].data IN
  IF Truthy(data.studentId)
    THEN /\ student' = student
         /\ studentcontactinfo' \in {studentcontactinfo,
                                     UpdateContact(studentcontactinfo, data, Phone[u])}
    ELSE /\ studentcontactinfo' = studentcontactinfo
         /\ student' \in {student, InsertStudent(student, NextId(student), data)}

\* C33 (as the code has it): the persist step at admission_confirm runs
\* outside a transaction.  A step that succeeds leaves every AdmissionRecord
\* with a ContactInfo row referring to it; a step that fails (session
\* deleted) leaves the writes made before the failing operation: at most the
\* AdmissionRecord inserted without its ContactInfo, or the ContactInfo
\* updated without the AdmissionRecord.
C33_PersistLeavesEarlierWrites ==
  [][\A u \in Users :
       userSessions[u].state = "admission_confirm"
       => /\ last'.branch = "persist_ok"
             => \A s \in student' \ student :
                  \E c \in studentcontactinfo' : c.student_id = s.id
          /\ last'.branch = "persist_failed"
             => userSessions'[u] = NoSession /\ LeftByFailedStep(u)]_vars

\* C33 (as stated): the persist step at admission_confirm is all-or-nothing:
\* in every reachable state each AdmissionRecord has a ContactInfo row
\* referring to it, and a step that fails (session deleted) has inserted or
\* modified no AdmissionRecord and no ContactInfo.
C33_PersistAllOrNothing ==
  /\ []EveryRecordHasContact
  /\ [][\A u \in Users :
          (userSessions[u].state = "admission_confirm" /\ last'.branch = "persist_failed")
          => userSessions'[u] = NoSession /\ DatabaseUnchanged]_vars

\* a persist step has failed after its INSERT INTO student: the new record
\* has no ContactInfo and the session is gone
C33_RecordWithoutContact ==
  /\ last.branch = "persist_failed"
  /\ \A u \in Users : ~userSessions[u].present
  /\ \E s \in student :
       /\ s.displayname = "John Smith"
       /\ \A c \in studentcontactinfo : c.student_id # s.id

\* the states from which the flow books
MeetingStates == {"meeting_offer", "meeting_show_slots", "confirm_replace_appointment"}

\* the session of u holds the id of an AdmissionRecord of the table
HoldsExistingRecord(u) ==
  /\ Truthy(userSessions[u].data.studentId)
  /\ \E s \in student : s.id = userSessions[u].data.studentId

\* C35: in every reachable session whose state is meeting_offer,
\* meeting_show_slots or confirm_replace_appointment, data.studentId is set
\* and is the id of an existing AdmissionRecord, and so is the student id of
\* every appointment row a booking step of the session inserts.
C35_MeetingStatesHoldStudentId ==
  /\ [](\A u \in Users :
          (userSessions[u].present /\ userSessions[u].state \in MeetingStates)
          => HoldsExistingRecord(u))
  /\ [][\A u \in Users :
          last'.branch \in {"slot_booked", "replace_booked"}
          => \E r \in appointments' \ appointments :
               /\ r.student_id = userSessions[u].data.studentId
               /\ \E s \in student : s.id = r.student_id]_vars

\* a form filled in from scratch has been persisted and a slot booked for
\* the record it inserted
C35_BookedForNewRecord ==
  /\ last.branch = "slot_booked"
  /\ \E u \in Users, r \in appointments, s \in student :
       /\ r.student_id = s.id
       /\ s.displayname = "John Smith"
       /\ userSessions[u].data.studentId = s.id

\* the states whose input goes to interpretYesNo
YesNoStates ==
  { "admission_confirm", "meeting_offer", "confirm_existing_data",
    "confirm_book_another_appointment", "check_existing_appointment",
    "confirm_replace_appointment" }

\* C36: in every yes/no state an answer the Oracle interprets as 'unknown'
\* (also when the Oracle is unavailable) leaves the session present, with
\* its state and its data unchanged.
C36_UnknownKeepsSession ==
  [][\A u \in Users :
       (/\ \E st \in YesNoStates : InCase(u, st)
        /\ ~last'.exit
        /\ last'.outcome = "unknown")
       => userSessions'[u] = userSessions[u]]_vars

(***************************************************************************)
(* A run in which the user goes through the flow: every message is one the *)
(* state in force accepts, a form is corrected once before it is confirmed *)
(* and every offer is taken up                                             *)
(***************************************************************************)
\* the states of the flow
FlowStates ==
  { FieldStates[i] : i \in 1..Len(FieldStates) }
  \cup { "admission_confirm", "admission_choose_detail_to_change", "update_detail",
         "meeting_offer", "meeting_show_slots", "confirm_replace_appointment",
         "awaiting_continue", "check_existing_appointment", "confirm_existing_data",
         "confirm_book_another_appointment" }

\* the states the session may be in after the next message of such a run,
\* by the state it is in: the assignments to session.state of the branch
\* the message takes.  No query of a step that starts or resumes a flow
\* fails
Onward(st) ==
  CASE st = "" ->
         IF appointments # {} THEN {"confirm_book_another_appointment"}
         ELSE {"admission_displayname", "confirm_existing_data"}
    [] st = "confirm_book_another_appointment" ->
         IF \E s \in student : s.enrolled = 0 THEN {"confirm_existing_data"}
         ELSE {"admission_displayname"}
    [] st = "confirm_existing_data" -> {"admission_choose_detail_to_change"}
    [] \E i \in 1..Len(FieldStates) : st = FieldStates[i] ->
         { IF i < Len(FieldStates) THEN FieldStates[i + 1] ELSE "admission_confirm"
             : i \in { j \in 1..Len(FieldStates) : st = FieldStates[j] } }
    [] st = "admission_confirm" ->
         IF corrections = 0 THEN {"admission_choose_detail_to_change"}
         ELSE {"meeting_offer"}
    [] st = "admission_choose_detail_to_change" -> {"update_detail"}
    [] st = "update_detail" -> {"admission_confirm"}
    [] st = "meeting_offer" -> {"meeting_show_slots"}
    [] st = "meeting_show_slots" -> {"awaiting_continue", "confirm_replace_appointment"}
    [] st = "check_existing_appointment" -> {"confirm_existing_data", "admission_displayname"}
    [] st = "confirm_replace_appointment" -> {"awaiting_continue"}
    [] OTHER -> {}

TourNext ==
  \E u \in Users :
    /\ \/ StartAdmission(u)
       \/ ConfirmBookAnother(u)
       \/ ConfirmExistingData(u)
       \/ FieldCollection(u)
       \/ AdmissionConfirm(u)
       \/ ChooseDetailToChange(u)
       \/ UpdateDetail(u)
       \/ MeetingOffer(u)
       \/ MeetingShowSlots(u)
    /\ userSessions'[u].present
    /\ userSessions'[u].state \in Onward(userSessions[u].state)

SpecTour == Init /\ [][TourNext]_vars /\ WF_vars(TourNext)

\* the tables the bot starts with
StartsFrom(db) ==
  /\ student = db.student
  /\ studentcontactinfo = db.contact
  /\ appointments = db.appointments

\* no record of the user
NoRecord == CHOOSE db \in InitialDatabases : db.student = {}

\* a record of the user that is not enrolled, and a future appointment
RecordAndAppointment ==
  CHOOSE db \in InitialDatabases :
    /\ db.appointments # {}
    /\ \E s \in db.student : s.enrolled = 0

\* the tables from which the run is to reach a state
TablesLeadingTo(st) ==
  IF st \in { "confirm_book_another_appointment", "confirm_existing_data",
              "check_existing_appointment", "confirm_replace_appointment" }
    THEN RecordAndAppointment
    ELSE NoRecord

ReachesFromTables(states) ==
  \A st \in states :
    StartsFrom(TablesLeadingTo(st)) => <>(\E u \in Users : InCase(u, st))

C37_AssignedStatesReached ==
  /\ [](\A u \in Users : userSessions[u].present => userSessions[u].state \in FlowStates)
  /\ ReachesFromTables(FlowStates \ {"check_existing_appointment",
                                      "confirm_replace_appointment"})

\* C39: in every reachable session, state = update_detail implies that
\* data.detailToUpdate is one of name, email, grade, semester, referral, and
\* in every other state data.detailToUpdate is null or absent.
C39_DetailToUpdateOnlyInUpdateDetail ==
  \A u \in Users :
    userSessions[u].present
    => IF userSessions[u].state = "update_detail"
         THEN userSessions[u].data.detailToUpdate \in validDetails
         ELSE userSessions[u].data.detailToUpdate \in {NOTEXT, NULLTEXT}

\* a correction has been accepted: the session is back at the review and
\* detailToUpdate is null
C39_ClearedAfterUpdate ==
  /\ last.branch = "update_accepted"
  /\ \E u \in Users :
       /\ userSessions[u].state = "admission_confirm"
       /\ userSessions[u].data.detailToUpdate = NULLTEXT

(***************************************************************************)
(* Two users at admission_confirm, neither with a studentId.  The persist  *)
(* step of a 'yes' is followed query by query: each await pool.query       *)
(* suspends the handler and lets the other user's handlers run.  A user    *)
(* sends the next message after the reply to the last one                  *)
(***************************************************************************)
\* the form each user has filled in
FormOf ==
  [ u \in Guardians |->
      [ EmptyData EXCEPT
          !.displayname = IF u \in Users THEN "John Smith" ELSE "Sara Ali",
          !.email = IF u \in Users THEN "j@x.io" ELSE "s@x.io",
          !.grade = 3, !.semester = 2, !.referral = "Friend" ] ]

\* no handler of the user is suspended in the persist step
IdleHandler == [pc |-> "idle", newStudentId |-> UNDEF, newContactId |-> UNDEF]

TwoInit ==
  /\ userSessions = [ u \in Guardians |->
                        [NewSession("admission_confirm") EXCEPT !.data = FormOf[u]] ]
  /\ student = {}
  /\ studentcontactinfo = {}
  /\ appointments = {}
  /\ now = StartOfRun
  /\ sent = <<>>
  /\ last = Last("none", "", NOTEXT)
  /\ flows = 0
  /\ corrections = 0
  /\ calls = NoCalls
  /\ handlers = [u \in Guardians |-> IdleHandler]

PersistFrame == UNCHANGED <<appointments, now, flows, corrections, calls>>

\* if (yesNo.toLowerCase() === 'yes') ... else: create new record, up to
\* the first await pool.query
ConfirmYes(u) ==
  /\ handlers[u].pc = "idle"
  /\ InCase(u, "admission_confirm")
  /\ ~Truthy(userSessions[u].data.studentId)
  /\ "yes" \in YesNo
  /\ handlers' = [handlers EXCEPT ![u].pc = "max_student"]
  /\ last' = Last("persist_started", "yes", NOTEXT)
  /\ UNCHANGED <<userSessions, sent, student, studentcontactinfo>>
  /\ PersistFrame

\* userSessions.set(userId, session) of the 'yes' branch for every user
SetSessionOfAll(u, session) == [v \in DOMAIN userSessions |-> session]

\* userSessions.set(userId, session)
SetSession(u, session) == [userSessions EXCEPT ![u] = session]

\* catch (err): the apology, userSessions.delete(userId)
PersistCatch(u) ==
  /\ userSessions' = PersistFailed(u)
  /\ sent' = <<Message("problem_saving")>>
  /\ handlers' = [handlers EXCEPT ![u] = IdleHandler]
  /\ last' = Last("persist_failed", "yes", NOTEXT)

\* SELECT MAX(id) AS maxId FROM student; newStudentId = (maxId || 0) + 1
SelectMaxStudent(u) ==
  /\ handlers[u].pc = "max_student"
  /\ \E thrown \in BOOLEAN :
       IF thrown
         THEN PersistCatch(u)
         ELSE /\ handlers' = [handlers EXCEPT ![u].pc = "insert_student",
                                              ![u].newStudentId = NextId(student)]
              /\ last' = Last("max_student", "", NOTEXT)
              /\ UNCHANGED <<userSessions, sent>>
  /\ UNCHANGED <<student, studentcontactinfo>>
  /\ PersistFrame

\* INSERT INTO student (id, ...) VALUES (newStudentId, ...).  The schema is
\* not part of the repository: with a key on id an INSERT of an id the
\* table holds throws, without one it stores a second row of that id
InsertStudentRow(u) ==
  /\ handlers[u].pc = "insert_student"
  /\ \E thrown \in BOOLEAN :
       IF thrown
         THEN /\ PersistCatch(u)
              /\ UNCHANGED student
         ELSE /\ Cardinality(student) < MaxStudents
              /\ student' = InsertStudent(student, handlers[u].newStudentId,
                                          userSessions[u].data)
              /\ handlers' = [handlers EXCEPT ![u].pc = "max_contact"]
              /\ last' = Last("insert_student", "", NOTEXT)
              /\ UNCHANGED <<userSessions, sent>>
  /\ UNCHANGED studentcontactinfo
  /\ PersistFrame

\* SELECT MAX(id) AS maxId FROM studentcontactinfo
SelectMaxContact(u) ==
  /\ handlers[u].pc = "max_contact"
  /\ \E thrown \in BOOLEAN :
       IF thrown
         THEN PersistCatch(u)
         ELSE /\ handlers' = [handlers EXCEPT ![u].pc = "insert_contact",
                                              ![u].newContactId =
                                                 NextId(studentcontactinfo)]
              /\ last' = Last("max_contact", "", NOTEXT)
              /\ UNCHANGED <<userSessions, sent>>
  /\ UNCHANGED <<student, studentcontactinfo>>
  /\ PersistFrame

\* INSERT INTO studentcontactinfo; session.data.studentId = newStudentId;
\* session.state = 'meeting_offer'; the prompt; userSessions.set
InsertContactRow(u) ==
  /\ handlers[u].pc = "insert_contact"
  /\ \E thrown \in BOOLEAN :
       IF thrown
         THEN /\ PersistCatch(u)
              /\ UNCHANGED studentcontactinfo
         ELSE LET session == userSessions[u]
                  data == [session.data EXCEPT !.studentId = handlers[u].newStudentId]
              IN /\ studentcontactinfo' =
                      InsertContact(studentcontactinfo, handlers[u].newContactId,
                                    handlers[u].newStudentId, session.data, Phone[u])
                 /\ userSessions' = SetSession(u, [session EXCEPT
                                                     !.data = data,
                                                     !.state = "meeting_offer"])
                 /\ sent' = <<getPromptForState("meeting_offer", data)>>
                 /\ handlers' = [handlers EXCEPT ![u] = IdleHandler]
                 /\ last' = Last("persist_ok", "yes", NOTEXT)
  /\ UNCHANGED student
  /\ PersistFrame

\* an answer other than 'yes' at admission_confirm
ConfirmOther(u) ==
  /\ handlers[u].pc = "idle"
  /\ AdmissionConfirm(u)
  /\ last'.branch = "admission_confirm"

\* the cancellation keyword
CancelFlow(u) ==
  /\ handlers[u].pc = "idle"
  /\ ExitCommand(u)

\* an admission message of a user with no session
StartAgain(u) ==
  /\ handlers[u].pc = "idle"
  /\ StartAdmission(u)

\* what the bot does for one user
HandlingOf(u) ==
  \/ ConfirmYes(u)
  \/ SelectMaxStudent(u)
  \/ InsertStudentRow(u)
  \/ SelectMaxContact(u)
  \/ InsertContactRow(u)
  \/ ConfirmOther(u)
  \/ CancelFlow(u)
  \/ StartAgain(u)

TwoNext == \E u \in Guardians : HandlingOf(u)

SpecTwo == TwoInit /\ [][TwoNext]_vars

\* the persist handlers that hold an id for their new record
Allocated == { u \in Guardians : handlers[u].pc \in {"insert_student", "max_contact",
                                                      "insert_contact"} }

\* C34: when two users answer 'yes' at admission_confirm concurrently, both
\* without studentId, MAX(id)+1 never gives the two handlers the same id,
\* the new AdmissionRecords have distinct identifiers, and data.studentId
\* of each session is the id of the one record that holds the session's
\* own data.
C34_ConcurrentConfirmsGetDistinctIds ==
  /\ \A u, v \in Allocated :
       u # v => handlers[u].newStudentId # handlers[v].newStudentId
  /\ \A r, q \in student : r.id = q.id => r = q
  /\ \A u \in Guardians :
       (InCase(u, "meeting_offer") /\ Truthy(userSessions[u].data.studentId))
       => /\ \E r \in student : r.id = userSessions[u].data.studentId
          /\ \A r \in student :
               r.id = userSessions[u].data.studentId
               => r.displayname = userSessions[u].data.displayname

\* the handler of u is suspended at a query of the persist step
Suspended(u) == handlers[u].pc # "idle"

\* the next step of a suspended handler
Resumes(u) ==
  \/ SelectMaxStudent(u)
  \/ InsertStudentRow(u)
  \/ SelectMaxContact(u)
  \/ InsertContactRow(u)

\* C38: handling a message of one user neither creates nor modifies nor
\* deletes the session of another user, and while a handler of a user is
\* suspended the messages of another user are handled: the answers at
\* admission_confirm, the cancellation, and the other user's own suspended
\* handler going on.
C38_OtherSessionsUntouched ==
  /\ [][\A u \in Guardians :
          HandlingOf(u)
          => \A v \in Guardians \ {u} : userSessions'[v] = userSessions[v]]_vars
  /\ [](\A u \in Guardians : \A v \in Guardians \ {u} :
          Suspended(u)
          => /\ (~Suspended(v) /\ InCase(v, "admission_confirm"))
                => (ENABLED ConfirmYes(v)) /\ (ENABLED ConfirmOther(v))
             /\ (~Suspended(v) /\ Active(v)) => ENABLED CancelFlow(v)
             /\ Suspended(v) => ENABLED Resumes(v))

\* while the persist step of one user waits for its INSERT, the other user
\* has answered 'no' and is asked which detail to change
C38_AnsweredWhileOtherSuspended ==
  /\ last.branch = "admission_confirm"
  /\ \E u \in Guardians : \E v \in Guardians \ {u} :
       /\ handlers[u].pc = "insert_student"
       /\ userSessions[u].state = "admission_confirm"
       /\ userSessions[v].state = "admission_choose_detail_to_change"

====
